---- MODULE Spec2Model ----
(***************************************************************************)
(* A state-machine model of b2ParticleSystem (LiquidFun,                   *)
(* Box2D/Particle/b2ParticleSystem.cpp): the particle arena and its        *)
(* buffers, the proxy array and the broad phase, particle contacts, pairs, *)
(* triads, particle groups, zombie compaction, buffer rotation and the     *)
(* Solve step.                                                             *)
(*                                                                         *)
(* Conventions.  Particle indices are the 0-based indices of the source.   *)
(* A per-particle buffer is a function on 0..m_count-1 (the part of the    *)
(* allocation that holds particles).  Bit fields are sets of flag names:   *)
(* a | b is \cup, a & b is \cap, a & ~b is \.  A b2Vec2 is a pair <<x, y>> *)
(* of integers; lengths are measured in units of which the particle        *)
(* diameter holds m_particleDiameter, and the arithmetic on them is exact. *)
(* A uint32 tag is kept as two limbs <<hi, lo>> (the y field and the x     *)
(* field) with the carries of 32-bit arithmetic.  A group pointer is a     *)
(* group id, NULL is 0.                                                    *)
(***************************************************************************)
EXTENDS Integers, Sequences, FiniteSets, TLC

VARIABLES
    m_count,                      \* number of particles
    m_internalAllocatedCapacity,  \* capacity of the internal buffers
    m_maxCount,                   \* SetParticleMaxCount, 0 = no limit
    m_flagsBuffer,                \* [data, userSuppliedCapacity]
    m_positionBuffer,             \* [data, userSuppliedCapacity]
    m_velocityBuffer,             \* [data, userSuppliedCapacity]
    m_colorBuffer,                \* [data, allocated, userSuppliedCapacity]
    m_userDataBuffer,             \* [data, allocated, userSuppliedCapacity]
    m_groupBuffer,                \* particle index -> group id or NULL
    m_proxyBuffer,                \* sequence of [tag, index]; m_proxyCount is its length
    m_contactBuffer,              \* sequence of [indexA, indexB, flags]
    m_bodyContactBuffer,          \* sequence of [index, fixture, weight]
    m_stackAllocator,             \* m_world->m_stackAllocator: its blocks, oldest first
    m_weightBuffer,               \* particle index -> sum of its contact weights
    m_depthBuffer,                \* particle index -> depth in its group
    m_pairBuffer,                 \* sequence of [indexA, indexB, flags, strength, distanceSq]
    m_triadBuffer,                \* sequence of [indexA, indexB, indexC, flags, strength]
    m_groupList,                  \* the linked list of groups, head first
    m_groupCount,
    groups,                       \* group id -> b2ParticleGroup fields
    nextGroup,                    \* the block allocator's next group object
    m_allParticleFlags,
    m_needsUpdateAllParticleFlags,
    m_allGroupFlags,
    m_needsUpdateAllGroupFlags,
    m_timestamp,
    m_iterationIndex,
    m_strictContactCheck,         \* SetStrictContactCheck
    locked,                       \* m_world->IsLocked()
    pc,                           \* position inside Solve: "idle", "substep", "kernels"
    step,                         \* the b2TimeStep of the running Solve
    ret,                          \* value returned by the last call
    lastCall,                     \* name of the last operation
    calls,                        \* number of API calls made so far
    ran,                          \* what the running sub-step of Solve has run
    impulse                       \* the impulse its kernels apply

vars == << m_count, m_internalAllocatedCapacity, m_maxCount, m_flagsBuffer,
           m_positionBuffer, m_velocityBuffer, m_colorBuffer, m_userDataBuffer,
           m_groupBuffer, m_proxyBuffer, m_contactBuffer, m_bodyContactBuffer,
           m_stackAllocator, m_weightBuffer, m_depthBuffer, m_pairBuffer,
           m_triadBuffer, m_groupList, m_groupCount, groups, nextGroup,
           m_allParticleFlags, m_needsUpdateAllParticleFlags, m_allGroupFlags,
           m_needsUpdateAllGroupFlags, m_timestamp, m_iterationIndex,
           m_strictContactCheck, locked,
           pc, step, ret, lastCall, calls, ran,
           impulse >>

---------------------------------------------------------------------------
(* Bounds of the model *)

MaxParticles == 3      \* particles created in a run of the system
MaxGroups == 3         \* group objects allocated in a run of the system
MaxTimestamp == 2      \* sub-steps solved in a run of the system
MaxCalls == 5          \* API calls made in a run of the system
MaxIterations == 2     \* largest step.particleIterations
MaxUserCapacity == 2   \* largest capacity given to SetParticle*Buffer / SetParticleMaxCount
ContactsMaxCount == 3  \* particles in the broad-phase specification
MaxBodyContacts == 5   \* body contacts reported in one UpdateBodyContacts
MaxBodyContactUpdates == 1  \* calls of UpdateBodyContacts in a run

---------------------------------------------------------------------------
(* Constants of the program *)

xTruncBits == 12
yTruncBits == 12
tagBits == 32
yOffset == 2 ^ (yTruncBits - 1)
yShift == tagBits - yTruncBits
xShift == tagBits - yTruncBits - xTruncBits
xScale == 2 ^ xShift
xOffset == xScale * (2 ^ (xTruncBits - 1))

b2_minParticleBufferCapacity == 256
b2_invalidParticleIndex == -1
b2_maxTriadDistanceSquared == 4
NULL == 0

\* b2ParticleSystemDef.particleRadius = 1 length unit
m_particleDiameter == 2
m_squaredDiameter == m_particleDiameter * m_particleDiameter

\* particle flags
b2_wallParticle == "wall"
b2_viscousParticle == "viscous"
b2_powderParticle == "powder"
b2_staticPressureParticle == "staticPressure"
b2_springParticle == "spring"
b2_elasticParticle == "elastic"
b2_tensileParticle == "tensile"
b2_colorMixingParticle == "colorMixing"
b2_barrierParticle == "barrier"
b2_zombieParticle == "zombie"
b2_destructionListener == "destructionListener"
k_pairFlags == {b2_springParticle, b2_barrierParticle}
k_triadFlags == {b2_elasticParticle}

\* group flags
b2_solidParticleGroup == "solid"
b2_rigidParticleGroup == "rigid"
b2_particleGroupCanBeEmpty == "canBeEmpty"
b2_particleGroupWillBeDestroyed == "willBeDestroyed"
b2_particleGroupNeedsUpdateDepth == "needsUpdateDepth"

---------------------------------------------------------------------------
(* Vectors and buffers *)

VecAdd(a, b) == <<a[1] + b[1], a[2] + b[2]>>
VecSub(a, b) == <<a[1] - b[1], a[2] - b[2]>>
VecScale(k, a) == <<k * a[1], k * a[2]>>
b2Dot(a, b) == a[1] * b[1] + a[2] * b[2]
b2Vec2_zero == <<0, 0>>

Min2(a, b) == IF a < b THEN a ELSE b
Max2(a, b) == IF a > b THEN a ELSE b

Indices(n) == 0 .. (n - 1)

\* buffer[index] = v, where index may be the first unused slot
Store(data, index, v) ==
    [i \in DOMAIN data \cup {index} |-> IF i = index THEN v ELSE data[i]]

\* the first n entries of a buffer
Prefix(data, n) == [i \in Indices(n) |-> data[i]]

---------------------------------------------------------------------------
(* Tags *)

LoMod == 2 ^ yShift
HiMod == 2 ^ (tagBits - yShift)

\* the uint32 hi * 2^yShift + lo, reduced modulo 2^tagBits
TagOf(hi, lo) == << (hi + (lo \div LoMod)) % HiMod, lo % LoMod >>

TagLess(a, b) == a[1] < b[1] \/ (a[1] = b[1] /\ a[2] < b[2])
TagLeq(a, b) == ~TagLess(b, a)

\* computeTag(m_inverseDiameter * p.x, m_inverseDiameter * p.y)
computeTag(p) ==
    TagOf((p[2] \div m_particleDiameter) + yOffset,
          ((xScale * p[1]) \div m_particleDiameter) + xOffset)

computeRelativeTag(tag, x, y) == TagOf(tag[1] + y, tag[2] + x * xScale)

\* the positions whose tag fields do not overflow
InTagRange(p) ==
    /\ -yOffset * m_particleDiameter <= p[2]
    /\ p[2] < yOffset * m_particleDiameter
    /\ -(2 ^ (xTruncBits - 1)) * m_particleDiameter <= p[1]
    /\ p[1] < (2 ^ (xTruncBits - 1)) * m_particleDiameter

\* the grid cell of a position
CellOf(p) == <<p[1] \div m_particleDiameter, p[2] \div m_particleDiameter>>

---------------------------------------------------------------------------
(* The system as one record, and its installation as the next state *)

Sys ==
    [ m_count |-> m_count,
      m_internalAllocatedCapacity |-> m_internalAllocatedCapacity,
      m_maxCount |-> m_maxCount,
      m_flagsBuffer |-> m_flagsBuffer,
      m_positionBuffer |-> m_positionBuffer,
      m_velocityBuffer |-> m_velocityBuffer,
      m_colorBuffer |-> m_colorBuffer,
      m_userDataBuffer |-> m_userDataBuffer,
      m_groupBuffer |-> m_groupBuffer,
      m_proxyBuffer |-> m_proxyBuffer,
      m_contactBuffer |-> m_contactBuffer,
      m_bodyContactBuffer |-> m_bodyContactBuffer,
      m_stackAllocator |-> m_stackAllocator,
      m_weightBuffer |-> m_weightBuffer,
      m_depthBuffer |-> m_depthBuffer,
      m_pairBuffer |-> m_pairBuffer,
      m_triadBuffer |-> m_triadBuffer,
      m_groupList |-> m_groupList,
      m_groupCount |-> m_groupCount,
      groups |-> groups,
      nextGroup |-> nextGroup,
      m_allParticleFlags |-> m_allParticleFlags,
      m_needsUpdateAllParticleFlags |-> m_needsUpdateAllParticleFlags,
      m_allGroupFlags |-> m_allGroupFlags,
      m_needsUpdateAllGroupFlags |-> m_needsUpdateAllGroupFlags,
      m_timestamp |-> m_timestamp,
      m_iterationIndex |-> m_iterationIndex,
      m_strictContactCheck |-> m_strictContactCheck,
      ret |-> ret ]

Install(s) ==
    /\ m_count' = s.m_count
    /\ m_internalAllocatedCapacity' = s.m_internalAllocatedCapacity
    /\ m_maxCount' = s.m_maxCount
    /\ m_flagsBuffer' = s.m_flagsBuffer
    /\ m_positionBuffer' = s.m_positionBuffer
    /\ m_velocityBuffer' = s.m_velocityBuffer
    /\ m_colorBuffer' = s.m_colorBuffer
    /\ m_userDataBuffer' = s.m_userDataBuffer
    /\ m_groupBuffer' = s.m_groupBuffer
    /\ m_proxyBuffer' = s.m_proxyBuffer
    /\ m_contactBuffer' = s.m_contactBuffer
    /\ m_bodyContactBuffer' = s.m_bodyContactBuffer
    /\ m_stackAllocator' = s.m_stackAllocator
    /\ m_weightBuffer' = s.m_weightBuffer
    /\ m_depthBuffer' = s.m_depthBuffer
    /\ m_pairBuffer' = s.m_pairBuffer
    /\ m_triadBuffer' = s.m_triadBuffer
    /\ m_groupList' = s.m_groupList
    /\ m_groupCount' = s.m_groupCount
    /\ groups' = s.groups
    /\ nextGroup' = s.nextGroup
    /\ m_allParticleFlags' = s.m_allParticleFlags
    /\ m_needsUpdateAllParticleFlags' = s.m_needsUpdateAllParticleFlags
    /\ m_allGroupFlags' = s.m_allGroupFlags
    /\ m_needsUpdateAllGroupFlags' = s.m_needsUpdateAllGroupFlags
    /\ m_timestamp' = s.m_timestamp
    /\ m_iterationIndex' = s.m_iterationIndex
    /\ m_strictContactCheck' = s.m_strictContactCheck
    /\ ret' = s.ret

\* the state left by the constructor
NoGroup ==
    [ m_firstIndex |-> 0, m_lastIndex |-> 0, m_groupFlags |-> {},
      m_strength |-> 0 ]

InitSys ==
    [ m_count |-> 0,
      m_internalAllocatedCapacity |-> 0,
      m_maxCount |-> 0,
      m_flagsBuffer |-> [data |-> <<>>, userSuppliedCapacity |-> 0],
      m_positionBuffer |-> [data |-> <<>>, userSuppliedCapacity |-> 0],
      m_velocityBuffer |-> [data |-> <<>>, userSuppliedCapacity |-> 0],
      m_colorBuffer |->
          [data |-> <<>>, allocated |-> FALSE, userSuppliedCapacity |-> 0],
      m_userDataBuffer |->
          [data |-> <<>>, allocated |-> FALSE, userSuppliedCapacity |-> 0],
      m_groupBuffer |-> <<>>,
      m_proxyBuffer |-> <<>>,
      m_contactBuffer |-> <<>>,
      m_bodyContactBuffer |-> <<>>,
      m_stackAllocator |-> [m_entries |-> <<>>, lifo |-> TRUE],
      m_weightBuffer |-> <<>>,
      m_depthBuffer |-> <<>>,
      m_pairBuffer |-> <<>>,
      m_triadBuffer |-> <<>>,
      m_groupList |-> <<>>,
      m_groupCount |-> 0,
      groups |-> [g \in 1 .. MaxGroups |-> NoGroup],
      nextGroup |-> 1,
      m_allParticleFlags |-> {},
      m_needsUpdateAllParticleFlags |-> FALSE,
      m_allGroupFlags |-> {},
      m_needsUpdateAllGroupFlags |-> FALSE,
      m_timestamp |-> 0,
      m_iterationIndex |-> 0,
      m_strictContactCheck |-> FALSE,
      ret |-> 0 ]

---------------------------------------------------------------------------
(* The stack allocator of the world *)

\* m_world->m_stackAllocator.Allocate: the block becomes the newest entry
StackAllocate(s, block) ==
    [s EXCEPT !.m_stackAllocator.m_entries = Append(@, block)]

\* m_world->m_stackAllocator.Free: the newest entry is released; lifo
\* records that every block freed so far was the newest one
StackFree(s, block) ==
    [s EXCEPT
       !.m_stackAllocator =
           [m_entries |-> IF @.m_entries = <<>> THEN <<>>
                          ELSE SubSeq(@.m_entries, 1, Len(@.m_entries) - 1),
            lifo |-> /\ @.lifo
                     /\ @.m_entries # <<>>
                     /\ @.m_entries[Len(@.m_entries)] = block]]

---------------------------------------------------------------------------
(* Buffer capacity *)

LimitCapacity(capacity, maxCount) ==
    IF maxCount # 0 /\ capacity > maxCount THEN maxCount ELSE capacity

\* the capacity ReallocateInternalAllocatedBuffers may grow to
LimitedCapacity(s, capacity) ==
    LimitCapacity(
      LimitCapacity(
        LimitCapacity(
          LimitCapacity(
            LimitCapacity(
              LimitCapacity(capacity, s.m_maxCount),
              s.m_flagsBuffer.userSuppliedCapacity),
            s.m_positionBuffer.userSuppliedCapacity),
          s.m_velocityBuffer.userSuppliedCapacity),
        s.m_colorBuffer.userSuppliedCapacity),
      s.m_userDataBuffer.userSuppliedCapacity)

\* ReallocateBuffer copies the old contents, so only the capacity changes
ReallocateInternalAllocatedBuffers(s, capacity) ==
    IF s.m_internalAllocatedCapacity < LimitedCapacity(s, capacity)
    THEN [s EXCEPT !.m_internalAllocatedCapacity = LimitedCapacity(s, capacity)]
    ELSE s

\* RequestParticleBuffer on a deferred buffer: allocated zeroed on first use
RequestParticleBuffer(s, buffer) ==
    IF buffer.allocated
    THEN buffer
    ELSE [buffer EXCEPT !.allocated = TRUE,
                        !.data = [i \in Indices(s.m_count) |-> 0]]

\* the capacity a RequestParticleBuffer call leaves
RequestCapacity(s, buffer) ==
    IF ~buffer.allocated /\ s.m_internalAllocatedCapacity = 0
    THEN ReallocateInternalAllocatedBuffers(s, b2_minParticleBufferCapacity)
    ELSE s

---------------------------------------------------------------------------
(* Particle flags *)

\* faulty variant: the removal of a flag is not recorded
SetParticleFlagsWithoutMarker(s, index, newFlags) ==
    LET added == (newFlags \ s.m_allParticleFlags) # {}
        s1 == IF added /\ b2_colorMixingParticle \in newFlags
              THEN [RequestCapacity(s, s.m_colorBuffer) EXCEPT
                      !.m_colorBuffer = RequestParticleBuffer(s, s.m_colorBuffer)]
              ELSE s
    IN  [s1 EXCEPT
           !.m_allParticleFlags = IF added THEN @ \cup newFlags ELSE @,
           !.m_flagsBuffer.data[index] = newFlags]

\* lines 2506-2529
SetParticleFlags(s, index, newFlags) ==
    LET oldFlags == s.m_flagsBuffer.data[index]
        added == (newFlags \ s.m_allParticleFlags) # {}
        s1 == IF added /\ b2_colorMixingParticle \in newFlags
              THEN [RequestCapacity(s, s.m_colorBuffer) EXCEPT
                      !.m_colorBuffer = RequestParticleBuffer(s, s.m_colorBuffer)]
              ELSE s
    IN  [s1 EXCEPT
           !.m_needsUpdateAllParticleFlags = @ \/ ((oldFlags \ newFlags) # {}),
           !.m_allParticleFlags = IF added THEN @ \cup newFlags ELSE @,
           !.m_flagsBuffer.data[index] = newFlags]

UpdateAllParticleFlags(s) ==
    [s EXCEPT
       !.m_allParticleFlags =
           UNION {s.m_flagsBuffer.data[i] : i \in Indices(s.m_count)},
       !.m_needsUpdateAllParticleFlags = FALSE]

---------------------------------------------------------------------------
(* CreateParticle and DestroyParticle *)

\* the tag Proxy memory holds before UpdateContacts first writes it:
\* the block allocator does not clear what it hands out
UninitTags == {TagOf(0, 0)}

\* lines 326-371, after the world-lock test; tag is the content of the
\* proxy's uninitialised tag field
CreateParticleUnlocked(s, def, tag) ==
    LET capacity == IF s.m_count # 0 THEN 2 * s.m_count
                    ELSE b2_minParticleBufferCapacity
        s1 == IF s.m_count >= s.m_internalAllocatedCapacity
              THEN ReallocateInternalAllocatedBuffers(s, capacity)
              ELSE s
        index == s1.m_count
        color == IF s1.m_colorBuffer.allocated \/ def.color # 0
                 THEN [RequestParticleBuffer(s1, s1.m_colorBuffer) EXCEPT
                         !.data = Store(@, index, def.color)]
                 ELSE s1.m_colorBuffer
        userData == IF s1.m_userDataBuffer.allocated \/ def.userData # NULL
                    THEN [RequestParticleBuffer(s1, s1.m_userDataBuffer) EXCEPT
                            !.data = Store(@, index, def.userData)]
                    ELSE s1.m_userDataBuffer
        s2 == [s1 EXCEPT
                 !.m_count = index + 1,
                 !.m_flagsBuffer.data = Store(@, index, {}),
                 !.m_positionBuffer.data = Store(@, index, def.position),
                 !.m_velocityBuffer.data = Store(@, index, def.velocity),
                 !.m_groupBuffer = Store(@, index, NULL),
                 !.m_colorBuffer = color,
                 !.m_userDataBuffer = userData,
                 !.m_proxyBuffer = Append(@, [tag |-> tag, index |-> index])]
    IN  IF s1.m_count >= s1.m_internalAllocatedCapacity
        THEN [s1 EXCEPT !.ret = b2_invalidParticleIndex]
        ELSE [SetParticleFlags(s2, index, def.flags) EXCEPT !.ret = index]

CreateParticle(s, isLocked, def, tag) ==
    IF isLocked
    THEN [s EXCEPT !.ret = 0]
    ELSE CreateParticleUnlocked(s, def, tag)

DestroyParticle(s, index, callDestructionListener) ==
    SetParticleFlags(s, index,
        s.m_flagsBuffer.data[index] \cup {b2_zombieParticle} \cup
        (IF callDestructionListener THEN {b2_destructionListener} ELSE {}))

---------------------------------------------------------------------------
(* UpdateContacts: the broad phase *)

\* the permutations of 1..n
ProxyOrders(n) ==
    {f \in [1 .. n -> 1 .. n] : \A i, j \in 1 .. n : i # j => f[i] # f[j]}

IsSortedByTag(proxies) ==
    \A k \in 1 .. (Len(proxies) - 1) : TagLeq(proxies[k].tag, proxies[k + 1].tag)

\* faulty variant: the proxies are left in the order they have
KeepProxyOrder(proxies) == {proxies}

\* std::sort with Proxy's operator<, which compares tags only: every
\* arrangement in ascending tag order is a possible result
SortProxies(proxies) ==
    {q \in {[k \in 1 .. Len(proxies) |-> proxies[f[k]]] :
                f \in ProxyOrders(Len(proxies))} : IsSortedByTag(q)}

\* lines 943-949: every proxy's tag from its particle's position
RetagProxies(s) ==
    [k \in 1 .. Len(s.m_proxyBuffer) |->
        [tag |-> computeTag(s.m_positionBuffer.data[s.m_proxyBuffer[k].index]),
         index |-> s.m_proxyBuffer[k].index]]

AddContact(s, contacts, a, b) ==
    LET d == VecSub(s.m_positionBuffer.data[b], s.m_positionBuffer.data[a])
    IN  IF b2Dot(d, d) < m_squaredDiameter
        THEN Append(contacts,
                    [indexA |-> a, indexB |-> b,
                     flags |-> s.m_flagsBuffer.data[a] \cup s.m_flagsBuffer.data[b]])
        ELSE contacts

\* for (b = from; b < endProxy; b++) { if (limitTag < b->tag) break; AddContact }
RECURSIVE ScanRun(_, _, _, _, _, _)
ScanRun(s, proxies, a, b, limitTag, contacts) ==
    IF b > Len(proxies) \/ TagLess(limitTag, proxies[b].tag)
    THEN contacts
    ELSE ScanRun(s, proxies, a, b + 1, limitTag,
                 AddContact(s, contacts, proxies[a].index, proxies[b].index))

\* for (; c < endProxy; c++) { if (bottomLeftTag <= c->tag) break; }
RECURSIVE AdvanceCursor(_, _, _)
AdvanceCursor(proxies, c, bottomLeftTag) ==
    IF c > Len(proxies) \/ TagLeq(bottomLeftTag, proxies[c].tag)
    THEN c
    ELSE AdvanceCursor(proxies, c + 1, bottomLeftTag)

\* faulty variants: the scan to the right skips a's successor, or starts at a
SkipScanStart(a) == a + 2
SelfScanStart(a) == a

\* first proxy scanned to the right of a
RightScanStart(a) == a + 1

\* lines 952-971
RECURSIVE ScanProxies(_, _, _, _, _)
ScanProxies(s, proxies, a, c, contacts) ==
    IF a > Len(proxies)
    THEN contacts
    ELSE LET tag == proxies[a].tag
             rightTag == computeRelativeTag(tag, 1, 0)
             bottomLeftTag == computeRelativeTag(tag, -1, 1)
             bottomRightTag == computeRelativeTag(tag, 1, 1)
             c1 == AdvanceCursor(proxies, c, bottomLeftTag)
             right == ScanRun(s, proxies, a, RightScanStart(a), rightTag, contacts)
             bottom == ScanRun(s, proxies, a, c1, bottomRightTag, right)
         IN  ScanProxies(s, proxies, a + 1, c1, bottom)

b2ParticleContactIsZombie(contact) == b2_zombieParticle \in contact.flags

\* the states UpdateContacts can leave
UpdateContacts(s, exceptZombie) ==
    {[s EXCEPT
        !.m_proxyBuffer = sorted,
        !.m_contactBuffer =
            LET found == ScanProxies(s, sorted, 1, 1, <<>>)
            IN  IF exceptZombie
                THEN SelectSeq(found, LAMBDA c : ~b2ParticleContactIsZombie(c))
                ELSE found]
     : sorted \in SortProxies(RetagProxies(s))}

---------------------------------------------------------------------------
(* Particle groups *)

\* b2ParticleGroup::ContainsParticle
ContainsParticle(group, index) ==
    group.m_firstIndex <= index /\ index < group.m_lastIndex

SetParticleGroupFlags(s, g, flags) ==
    LET oldFlags == s.groups[g].m_groupFlags
        newFlags ==
            IF (b2_solidParticleGroup \in oldFlags) # (b2_solidParticleGroup \in flags)
            THEN flags \cup {b2_particleGroupNeedsUpdateDepth}
            ELSE flags
    IN  [s EXCEPT
           !.m_needsUpdateAllGroupFlags = @ \/ ((oldFlags \ newFlags) # {}),
           !.m_allGroupFlags =
               IF (newFlags \ s.m_allGroupFlags) # {} THEN @ \cup newFlags ELSE @,
           !.groups[g].m_groupFlags = newFlags]

UpdateAllGroupFlags(s) ==
    [s EXCEPT
       !.m_allGroupFlags =
           UNION {s.groups[s.m_groupList[k]].m_groupFlags :
                      k \in 1 .. Len(s.m_groupList)},
       !.m_needsUpdateAllGroupFlags = FALSE]

DestroyParticleGroup(s, g) ==
    LET s1 == SetParticleGroupFlags(s, g, {})
        group == s1.groups[g]
    IN  [s1 EXCEPT
           !.m_groupBuffer =
               [i \in DOMAIN @ |-> IF ContainsParticle(group, i) THEN NULL ELSE @[i]],
           !.m_groupList = SelectSeq(@, LAMBDA h : h # g),
           !.m_groupCount = @ - 1,
           !.groups[g] = NoGroup]

\* b2VoronoiDiagram::GetNodes: the triples of generators reported to the
\* callback.  The diagram reports the Delaunay triples; the model reports
\* every triple, each in ascending order, which includes them
TripleLeq(x, y) ==
    \/ x[1] < y[1]
    \/ (x[1] = y[1] /\ x[2] < y[2])
    \/ (x[1] = y[1] /\ x[2] = y[2] /\ x[3] <= y[3])

RECURSIVE TriplesInOrder(_)
TriplesInOrder(S) ==
    IF S = {} THEN <<>>
    ELSE LET m == CHOOSE x \in S : \A y \in S : TripleLeq(x, y)
         IN  <<m>> \o TriplesInOrder(S \ {m})

VoronoiNodes(generators) ==
    TriplesInOrder({<<a, b, c>> \in generators \X generators \X generators :
                        a < b /\ b < c})

\* lines 643-672: one pair per contact that joins the two groups
RECURSIVE UpdatePairs(_, _, _, _, _)
UpdatePairs(s, k, groupA, groupB, pairs) ==
    IF k > Len(s.m_contactBuffer)
    THEN pairs
    ELSE LET contact == s.m_contactBuffer[k]
             a == Min2(contact.indexA, contact.indexB)
             b == Max2(contact.indexA, contact.indexB)
             A == s.groups[groupA]
             B == s.groups[groupB]
             d == VecSub(s.m_positionBuffer.data[a], s.m_positionBuffer.data[b])
         IN  IF (ContainsParticle(A, a) \/ ContainsParticle(B, b)) /\
                (ContainsParticle(A, b) \/ ContainsParticle(B, a))
             THEN UpdatePairs(s, k + 1, groupA, groupB,
                      Append(pairs,
                          [indexA |-> a, indexB |-> b, flags |-> contact.flags,
                           strength |-> Min2(A.m_strength, B.m_strength),
                           distanceSq |-> b2Dot(d, d)]))
             ELSE UpdatePairs(s, k + 1, groupA, groupB, pairs)

\* UpdateTriadsCallback::operator()
RECURSIVE UpdateTriads(_, _, _, _, _)
UpdateTriads(s, nodes, groupA, groupB, triads) ==
    IF nodes = <<>>
    THEN triads
    ELSE LET a == Head(nodes)[1]
             b == Head(nodes)[2]
             c == Head(nodes)[3]
             A == s.groups[groupA]
             B == s.groups[groupB]
             af == s.m_flagsBuffer.data[a]
             bf == s.m_flagsBuffer.data[b]
             cf == s.m_flagsBuffer.data[c]
             pa == s.m_positionBuffer.data[a]
             pb == s.m_positionBuffer.data[b]
             pc_ == s.m_positionBuffer.data[c]
             dab == VecSub(pa, pb)
             dbc == VecSub(pb, pc_)
             dca == VecSub(pc_, pa)
             maxDistanceSquared == b2_maxTriadDistanceSquared * m_squaredDiameter
         IN  IF /\ (ContainsParticle(A, a) \/ ContainsParticle(A, b) \/
                    ContainsParticle(A, c))
                /\ (ContainsParticle(B, a) \/ ContainsParticle(B, b) \/
                    ContainsParticle(B, c))
                /\ (af \cap bf \cap cf \cap k_triadFlags) # {}
                /\ b2Dot(dab, dab) < maxDistanceSquared
                /\ b2Dot(dbc, dbc) < maxDistanceSquared
                /\ b2Dot(dca, dca) < maxDistanceSquared
             THEN UpdateTriads(s, Tail(nodes), groupA, groupB,
                      Append(triads,
                          [indexA |-> a, indexB |-> b, indexC |-> c,
                           flags |-> af \cup bf \cup cf,
                           strength |-> Min2(A.m_strength, B.m_strength)]))
             ELSE UpdateTriads(s, Tail(nodes), groupA, groupB, triads)

UpdatePairsAndTriads(s, firstIndex, lastIndex, groupA, groupB) ==
    LET particleFlags ==
            UNION {s.m_flagsBuffer.data[i] : i \in firstIndex .. (lastIndex - 1)}
        generators ==
            {i \in firstIndex .. (lastIndex - 1) :
                /\ b2_zombieParticle \notin s.m_flagsBuffer.data[i]
                /\ (ContainsParticle(s.groups[groupA], i) \/
                    ContainsParticle(s.groups[groupB], i))}
    IN  [s EXCEPT
           !.m_pairBuffer =
               IF (particleFlags \cap k_pairFlags) # {}
               THEN UpdatePairs(s, 1, groupA, groupB, @)
               ELSE @,
           !.m_triadBuffer =
               IF (particleFlags \cap k_triadFlags) # {}
               THEN UpdateTriads(s, VoronoiNodes(generators), groupA, groupB, @)
               ELSE @]

---------------------------------------------------------------------------
(* CreateParticleGroup *)

\* b2Cross(float32 s, b2Vec2 a)
b2CrossSV(a, v) == <<-a * v[2], a * v[1]>>

\* the group's transform has angle 0: b2Mul(xf, p) = groupDef.position + p
CreateParticleForGroup(s, groupDef, p, tag) ==
    LET position == VecAdd(groupDef.position, p)
    IN  CreateParticleUnlocked(s,
            [flags |-> groupDef.flags,
             position |-> position,
             velocity |-> VecAdd(groupDef.linearVelocity,
                                 b2CrossSV(groupDef.angularVelocity,
                                           VecSub(position, groupDef.position))),
             color |-> groupDef.color,
             userData |-> groupDef.userData],
            tag)

\* lines 564-572: groupDef.positionData[i .. particleCount-1]
RECURSIVE CreateParticlesForGroup(_, _, _, _)
CreateParticlesForGroup(s, groupDef, i, tag) ==
    IF i > Len(groupDef.positionData)
    THEN s
    ELSE CreateParticlesForGroup(
             CreateParticleForGroup(s, groupDef, groupDef.positionData[i], tag),
             groupDef, i + 1, tag)

\* lines 544-600, after the world-lock test
CreateParticleGroupUnlocked(s, groupDef, tag) ==
    LET firstIndex == s.m_count
        s1 == CreateParticlesForGroup(s, groupDef, 1, tag)
        lastIndex == s1.m_count
        group == s1.nextGroup
        s2 == [s1 EXCEPT
                 !.groups[group] =
                     [m_firstIndex |-> firstIndex, m_lastIndex |-> lastIndex,
                      m_groupFlags |-> {}, m_strength |-> groupDef.strength],
                 !.nextGroup = @ + 1,
                 !.m_groupList = <<group>> \o @,
                 !.m_groupCount = @ + 1,
                 !.m_groupBuffer =
                     [i \in DOMAIN @ |->
                         IF firstIndex <= i /\ i < lastIndex THEN group ELSE @[i]]]
        s3 == SetParticleGroupFlags(s2, group, groupDef.groupFlags)
    IN  {[UpdatePairsAndTriads(s4, firstIndex, lastIndex, group, group)
             EXCEPT !.ret = group]
         : s4 \in UpdateContacts(s3, TRUE)}

\* faulty variant: the world's lock is not looked at
CreateParticleGroupIgnoringLock(s, isLocked, groupDef, tag) ==
    CreateParticleGroupUnlocked(s, groupDef, tag)

CreateParticleGroup(s, isLocked, groupDef, tag) ==
    IF isLocked
    THEN {[s EXCEPT !.ret = NULL]}
    ELSE CreateParticleGroupUnlocked(s, groupDef, tag)

RECURSIVE DestroyParticlesInRange(_, _, _, _)
DestroyParticlesInRange(s, i, lastIndex, callDestructionListener) ==
    IF i >= lastIndex
    THEN s
    ELSE DestroyParticlesInRange(
             DestroyParticle(s, i, callDestructionListener),
             i + 1, lastIndex, callDestructionListener)

DestroyParticlesInGroup(s, isLocked, g, callDestructionListener) ==
    IF isLocked
    THEN s
    ELSE DestroyParticlesInRange(s, s.groups[g].m_firstIndex,
                                 s.groups[g].m_lastIndex, callDestructionListener)

---------------------------------------------------------------------------
(* RotateBuffer *)

\* faulty variant: the indices of [mid, end) are not moved
NewIndicesOfFrontOnly(start, mid, end, i) ==
    IF i < start THEN i
    ELSE IF i < mid THEN i + end - mid
    ELSE i

\* struct NewIndices, operator[]
NewIndices(start, mid, end, i) ==
    IF i < start THEN i
    ELSE IF i < mid THEN i + end - mid
    ELSE IF i < end THEN i + start - mid
    ELSE i

\* std::rotate(data + start, data + mid, data + end)
Rotate(data, start, mid, end) ==
    [j \in DOMAIN data |->
        IF j < start \/ j >= end THEN data[j]
        ELSE IF j < start + (end - mid) THEN data[j - start + mid]
        ELSE data[j - (end - mid)]]

\* std::rotate needs start <= mid <= end inside the buffers
RotateBufferDefined(s, start, mid, end) ==
    \/ start = mid
    \/ mid = end
    \/ (0 <= start /\ start < mid /\ mid < end /\ end <= s.m_count)

\* faulty variant: the last index is moved like an index of a particle
RotateGroupByLastIndex(group, start, mid, end) ==
    [group EXCEPT
       !.m_firstIndex = NewIndices(start, mid, end, group.m_firstIndex),
       !.m_lastIndex = NewIndices(start, mid, end, group.m_lastIndex)]

\* lines 2293-2297
RotateGroup(group, start, mid, end) ==
    [group EXCEPT
       !.m_firstIndex = NewIndices(start, mid, end, group.m_firstIndex),
       !.m_lastIndex = NewIndices(start, mid, end, group.m_lastIndex - 1) + 1]

RotateBuffer(s, start, mid, end) ==
    IF start = mid \/ mid = end
    THEN s
    ELSE LET N(i) == NewIndices(start, mid, end, i)
         IN  [s EXCEPT
               !.m_flagsBuffer.data = Rotate(@, start, mid, end),
               !.m_positionBuffer.data = Rotate(@, start, mid, end),
               !.m_velocityBuffer.data = Rotate(@, start, mid, end),
               !.m_groupBuffer = Rotate(@, start, mid, end),
               !.m_colorBuffer.data =
                   IF s.m_colorBuffer.allocated
                   THEN Rotate(@, start, mid, end) ELSE @,
               !.m_userDataBuffer.data =
                   IF s.m_userDataBuffer.allocated
                   THEN Rotate(@, start, mid, end) ELSE @,
               !.m_proxyBuffer =
                   [k \in DOMAIN @ |-> [@[k] EXCEPT !.index = N(@)]],
               !.m_contactBuffer =
                   [k \in DOMAIN @ |->
                       [@[k] EXCEPT !.indexA = N(@), !.indexB = N(@)]],
               !.m_bodyContactBuffer =
                   [k \in DOMAIN @ |-> [@[k] EXCEPT !.index = N(@)]],
               !.m_pairBuffer =
                   [k \in DOMAIN @ |->
                       [@[k] EXCEPT !.indexA = N(@), !.indexB = N(@)]],
               !.m_triadBuffer =
                   [k \in DOMAIN @ |->
                       [@[k] EXCEPT !.indexA = N(@), !.indexB = N(@),
                                    !.indexC = N(@)]],
               !.groups =
                   [g \in DOMAIN @ |->
                       IF \E k \in DOMAIN s.m_groupList : s.m_groupList[k] = g
                       THEN RotateGroup(@[g], start, mid, end)
                       ELSE @[g]]]

---------------------------------------------------------------------------
(* JoinParticleGroups *)

\* the state after the first rotation, line 613
JoinFirstRotation(s, groupA, groupB) ==
    RotateBuffer(s, s.groups[groupB].m_firstIndex,
                 s.groups[groupB].m_lastIndex, s.m_count)

\* the state after the second rotation, lines 615-616
JoinSecondRotation(s, groupA, groupB) ==
    LET s1 == JoinFirstRotation(s, groupA, groupB)
    IN  RotateBuffer(s1, s1.groups[groupA].m_firstIndex,
                     s1.groups[groupA].m_lastIndex,
                     s1.groups[groupB].m_firstIndex)

\* the b2Asserts of lines 612-617 hold and both std::rotate calls are defined
JoinDefined(s, groupA, groupB) ==
    LET s1 == JoinFirstRotation(s, groupA, groupB)
    IN  /\ groupA # groupB
        /\ RotateBufferDefined(s, s.groups[groupB].m_firstIndex,
                               s.groups[groupB].m_lastIndex, s.m_count)
        /\ s1.groups[groupB].m_lastIndex = s1.m_count
        /\ RotateBufferDefined(s1, s1.groups[groupA].m_firstIndex,
                               s1.groups[groupA].m_lastIndex,
                               s1.groups[groupB].m_firstIndex)
        /\ LET s2 == JoinSecondRotation(s, groupA, groupB)
           IN  s2.groups[groupA].m_lastIndex = s2.groups[groupB].m_firstIndex

\* faulty variant: the particles of B keep B as their group
JoinMergeKeepingGroupBuffer(s, groupA, groupB) ==
    LET A == s.groups[groupA]
        B == s.groups[groupB]
        s6 == SetParticleGroupFlags(s, groupA, A.m_groupFlags \cup B.m_groupFlags)
        s7 == [s6 EXCEPT
                 !.groups[groupA].m_lastIndex = B.m_lastIndex,
                 !.groups[groupB].m_firstIndex = B.m_lastIndex]
    IN  DestroyParticleGroup(s7, groupB)

\* lines 623-631
JoinMerge(s, groupA, groupB) ==
    LET A == s.groups[groupA]
        B == s.groups[groupB]
        s5 == [s EXCEPT
                 !.m_groupBuffer =
                     [i \in DOMAIN @ |->
                         IF ContainsParticle(B, i) THEN groupA ELSE @[i]]]
        s6 == SetParticleGroupFlags(s5, groupA, A.m_groupFlags \cup B.m_groupFlags)
        s7 == [s6 EXCEPT
                 !.groups[groupA].m_lastIndex = B.m_lastIndex,
                 !.groups[groupB].m_firstIndex = B.m_lastIndex]
    IN  DestroyParticleGroup(s7, groupB)

\* lines 612-631, after the world-lock test
JoinParticleGroupsUnlocked(s, groupA, groupB) ==
    LET s2 == JoinSecondRotation(s, groupA, groupB)
    IN  {JoinMerge(
             UpdatePairsAndTriads(s3, s3.groups[groupA].m_firstIndex,
                                  s3.groups[groupB].m_lastIndex, groupA, groupB),
             groupA, groupB)
         : s3 \in UpdateContacts(s2, TRUE)}

JoinParticleGroups(s, isLocked, groupA, groupB) ==
    IF isLocked
    THEN {s}
    ELSE JoinParticleGroupsUnlocked(s, groupA, groupB)

---------------------------------------------------------------------------
(* SolveZombie *)

SetMin(S) == CHOOSE x \in S : \A y \in S : x <= y
SetMax(S) == CHOOSE x \in S : \A y \in S : y <= x

\* lines 2017-2037: copy particle i into slot newCount
MoveParticleKeepingOrder(s, i, newCount) ==
    [s EXCEPT
       !.m_flagsBuffer.data[newCount] = s.m_flagsBuffer.data[i],
       !.m_positionBuffer.data[newCount] = s.m_positionBuffer.data[i],
       !.m_velocityBuffer.data[newCount] = s.m_velocityBuffer.data[i],
       !.m_groupBuffer[newCount] = s.m_groupBuffer[i],
       !.m_colorBuffer.data =
           IF s.m_colorBuffer.allocated
           THEN [@ EXCEPT ![newCount] = s.m_colorBuffer.data[i]] ELSE @,
       !.m_userDataBuffer.data =
           IF s.m_userDataBuffer.allocated
           THEN [@ EXCEPT ![newCount] = s.m_userDataBuffer.data[i]] ELSE @]

\* faulty variant: the survivor's data stays where it is
LeaveParticle(s, i, newCount) == s

MoveParticle(s, i, newCount) ==
    IF i # newCount THEN MoveParticleKeepingOrder(s, i, newCount) ELSE s

\* lines 1998-2042; z = [s, newCount, newIndices, allParticleFlags]
RECURSIVE CompactParticles(_, _)
CompactParticles(z, i) ==
    IF i >= z.s.m_count
    THEN z
    ELSE LET flags == z.s.m_flagsBuffer.data[i]
         IN  IF b2_zombieParticle \in flags
             THEN CompactParticles(
                      [z EXCEPT !.newIndices[i] = b2_invalidParticleIndex],
                      i + 1)
             ELSE CompactParticles(
                      [s |-> MoveParticle(z.s, i, z.newCount),
                       newCount |-> z.newCount + 1,
                       newIndices |-> [z.newIndices EXCEPT ![i] = z.newCount],
                       allParticleFlags |-> z.allParticleFlags \cup flags],
                      i + 1)

\* faulty variant: the last particle of a group falls out of its range
UpdateGroupAfterZombieShortRange(s, g, newIndices, newCount) ==
    LET group == s.groups[g]
        range == group.m_firstIndex .. (group.m_lastIndex - 1)
        kept == {newIndices[i] : i \in range} \ {b2_invalidParticleIndex}
        firstIndex == SetMin(kept \cup {newCount})
        lastIndex == SetMax(kept \cup {0})
    IN  IF firstIndex < lastIndex
        THEN [s EXCEPT !.groups[g].m_firstIndex = firstIndex,
                       !.groups[g].m_lastIndex = lastIndex]
        ELSE [s EXCEPT !.groups[g].m_firstIndex = 0,
                       !.groups[g].m_lastIndex = 0]

\* lines 2130-2167 for one group of the list
UpdateGroupAfterZombie(s, g, newIndices, newCount) ==
    LET group == s.groups[g]
        range == group.m_firstIndex .. (group.m_lastIndex - 1)
        kept == {newIndices[i] : i \in range} \ {b2_invalidParticleIndex}
        firstIndex == SetMin(kept \cup {newCount})
        lastIndex == SetMax({j + 1 : j \in kept} \cup {0})
        modified == \E i \in range : newIndices[i] < 0
    IN  IF firstIndex < lastIndex
        THEN LET s1 == [s EXCEPT !.groups[g].m_firstIndex = firstIndex,
                                 !.groups[g].m_lastIndex = lastIndex]
             IN  IF modified /\ b2_solidParticleGroup \in group.m_groupFlags
                 THEN SetParticleGroupFlags(s1, g,
                          group.m_groupFlags \cup {b2_particleGroupNeedsUpdateDepth})
                 ELSE s1
        ELSE LET s1 == [s EXCEPT !.groups[g].m_firstIndex = 0,
                                 !.groups[g].m_lastIndex = 0]
             IN  IF b2_particleGroupCanBeEmpty \notin group.m_groupFlags
                 THEN SetParticleGroupFlags(s1, g,
                          group.m_groupFlags \cup {b2_particleGroupWillBeDestroyed})
                 ELSE s1

\* lines 2128-2168 over the groups list[k..]
RECURSIVE UpdateGroupsAfterZombie(_, _, _, _, _)
UpdateGroupsAfterZombie(s, list, k, newIndices, newCount) ==
    IF k > Len(list)
    THEN s
    ELSE UpdateGroupsAfterZombie(
             UpdateGroupAfterZombie(s, list[k], newIndices, newCount),
             list, k + 1, newIndices, newCount)

\* faulty variant: the groups flagged willBeDestroyed stay in the list
KeepFlaggedGroups(s, list, k) == s

\* lines 2177-2186 over the groups list[k..]
RECURSIVE DestroyFlaggedGroups(_, _, _)
DestroyFlaggedGroups(s, list, k) ==
    IF k > Len(list)
    THEN s
    ELSE DestroyFlaggedGroups(
             IF b2_particleGroupWillBeDestroyed \in s.groups[list[k]].m_groupFlags
             THEN DestroyParticleGroup(s, list[k])
             ELSE s,
             list, k + 1)

\* the slots [newCount, m_count) no longer hold particles
TruncateBuffers(s, newCount) ==
    [s EXCEPT
       !.m_flagsBuffer.data = Prefix(@, newCount),
       !.m_positionBuffer.data = Prefix(@, newCount),
       !.m_velocityBuffer.data = Prefix(@, newCount),
       !.m_groupBuffer = Prefix(@, newCount),
       !.m_colorBuffer.data =
           IF s.m_colorBuffer.allocated THEN Prefix(@, newCount) ELSE @,
       !.m_userDataBuffer.data =
           IF s.m_userDataBuffer.allocated THEN Prefix(@, newCount) ELSE @,
       !.m_count = newCount]

\* faulty variant: a pair is dropped only for its first particle
IsPairInvalidByIndexA(pair) == pair.indexA < 0

\* struct Test, lines 2045-2067
IsProxyInvalid(proxy) == proxy.index < 0
IsContactInvalid(contact) == contact.indexA < 0 \/ contact.indexB < 0
IsBodyContactInvalid(contact) == contact.index < 0
IsPairInvalid(pair) == pair.indexA < 0 \/ pair.indexB < 0
IsTriadInvalid(triad) == triad.indexA < 0 \/ triad.indexB < 0 \/ triad.indexC < 0

\* newIndices[index], lines 2073, 2084-2085, 2107-2108, 2118-2120
RemapIndex(newIndices, index) == newIndices[index]

SolveZombie(s) ==
    LET z == CompactParticles(
                 [s |-> StackAllocate(s, "newIndices"), newCount |-> 0,
                  newIndices |-> [i \in Indices(s.m_count) |-> 0],
                  allParticleFlags |-> {}],
                 0)
        N == z.newIndices
        s1 == [z.s EXCEPT
                 !.m_proxyBuffer =
                     SelectSeq([k \in DOMAIN @ |-> [@[k] EXCEPT !.index = RemapIndex(N, @)]],
                               LAMBDA proxy : ~IsProxyInvalid(proxy)),
                 !.m_contactBuffer =
                     SelectSeq([k \in DOMAIN @ |->
                                   [@[k] EXCEPT !.indexA = RemapIndex(N, @), !.indexB = RemapIndex(N, @)]],
                               LAMBDA contact : ~IsContactInvalid(contact)),
                 !.m_bodyContactBuffer =
                     SelectSeq([k \in DOMAIN @ |-> [@[k] EXCEPT !.index = RemapIndex(N, @)]],
                               LAMBDA contact : ~IsBodyContactInvalid(contact)),
                 !.m_pairBuffer =
                     SelectSeq([k \in DOMAIN @ |->
                                   [@[k] EXCEPT !.indexA = RemapIndex(N, @), !.indexB = RemapIndex(N, @)]],
                               LAMBDA pair : ~IsPairInvalid(pair)),
                 !.m_triadBuffer =
                     SelectSeq([k \in DOMAIN @ |->
                                   [@[k] EXCEPT !.indexA = RemapIndex(N, @), !.indexB = RemapIndex(N, @),
                                                !.indexC = RemapIndex(N, @)]],
                               LAMBDA triad : ~IsTriadInvalid(triad))]
        s2 == UpdateGroupsAfterZombie(s1, s1.m_groupList, 1, N, z.newCount)
        s3 == [TruncateBuffers(s2, z.newCount) EXCEPT
                 !.m_allParticleFlags = z.allParticleFlags,
                 !.m_needsUpdateAllParticleFlags = FALSE]
        s4 == StackFree(s3, "newIndices")
    IN  DestroyFlaggedGroups(s4, s4.m_groupList, 1)

---------------------------------------------------------------------------
(* QueryAABB and DestroyParticlesInShape *)

\* std::lower_bound(proxies[first..last), tag): first proxy whose tag is not
\* less than tag, found by bisection
RECURSIVE LowerBound(_, _, _, _)
LowerBound(proxies, first, count, tag) ==
    IF count <= 0
    THEN first
    ELSE LET half == count \div 2
             mid == first + half
         IN  IF TagLess(proxies[mid].tag, tag)
             THEN LowerBound(proxies, mid + 1, count - half - 1, tag)
             ELSE LowerBound(proxies, first, half, tag)

\* std::upper_bound(proxies[first..last), tag): first proxy whose tag is
\* greater than tag, found by bisection
RECURSIVE UpperBound(_, _, _, _)
UpperBound(proxies, first, count, tag) ==
    IF count <= 0
    THEN first
    ELSE LET half == count \div 2
             mid == first + half
         IN  IF ~TagLess(tag, proxies[mid].tag)
             THEN UpperBound(proxies, mid + 1, count - half - 1, tag)
             ELSE UpperBound(proxies, first, half, tag)

\* the particle indices QueryAABB reports to a callback that never stops it
QueryAABB(s, aabb) ==
    IF Len(s.m_proxyBuffer) = 0
    THEN <<>>
    ELSE LET proxies == s.m_proxyBuffer
             endProxy == Len(proxies) + 1
             firstProxy == LowerBound(proxies, 1, endProxy - 1,
                                      computeTag(aabb.lowerBound))
             lastProxy == UpperBound(proxies, firstProxy, endProxy - firstProxy,
                                     computeTag(aabb.upperBound))
             inside(proxy) ==
                 LET p == s.m_positionBuffer.data[proxy.index]
                 IN  /\ aabb.lowerBound[1] < p[1] /\ p[1] < aabb.upperBound[1]
                     /\ aabb.lowerBound[2] < p[2] /\ p[2] < aabb.upperBound[2]
         IN  [k \in 1 .. Len(SelectSeq(SubSeq(proxies, firstProxy, lastProxy - 1),
                                       inside))
                |-> SelectSeq(SubSeq(proxies, firstProxy, lastProxy - 1),
                              inside)[k].index]

\* b2Shape::TestPoint for an axis-aligned box shape under the identity transform
TestPoint(shape, p) ==
    /\ shape.lowerBound[1] <= p[1] /\ p[1] <= shape.upperBound[1]
    /\ shape.lowerBound[2] <= p[2] /\ p[2] <= shape.upperBound[2]

\* DestroyParticlesInShapeCallback::ReportParticle over reported[k..];
\* z = [s, m_destroyed]
RECURSIVE ReportParticles(_, _, _, _, _)
ReportParticles(z, reported, k, shape, callDestructionListener) ==
    IF k > Len(reported)
    THEN z
    ELSE ReportParticles(
             IF TestPoint(shape, z.s.m_positionBuffer.data[reported[k]])
             THEN [s |-> DestroyParticle(z.s, reported[k], callDestructionListener),
                   m_destroyed |-> z.m_destroyed + 1]
             ELSE z,
             reported, k + 1, shape, callDestructionListener)

\* the box shape is its own AABB
DestroyParticlesInShape(s, isLocked, shape, callDestructionListener) ==
    IF isLocked
    THEN [s EXCEPT !.ret = 0]
    ELSE LET z == ReportParticles([s |-> s, m_destroyed |-> 0],
                                  QueryAABB(s, shape), 1, shape,
                                  callDestructionListener)
         IN  [z.s EXCEPT !.ret = z.m_destroyed]

---------------------------------------------------------------------------
(* Solve *)

Sgn(x) == IF x > 0 THEN 1 ELSE IF x < 0 THEN -1 ELSE 0

b2Cross(a, b) == a[1] * b[2] - a[2] * b[1]

\* b2TimeStep subStep: dt /= particleIterations
SubStepDt(timeStep) == timeStep.dt \div timeStep.particleIterations

\* GetCriticalVelocity: m_particleDiameter * step.inv_dt
GetCriticalVelocity(timeStep) == m_particleDiameter \div SubStepDt(timeStep)

\* b2ParticleBodyContactRemovePredicate
k_maxContactsPerPoint == 3

\* the predicate object as its constructor leaves it
NewRemovePredicate == [m_lastIndex |-> -1, m_currentContacts |-> 0]

\* operator(): the predicate object p after the call and the value returned.
\* contact.fixture.testPoint is what contact.fixture->TestPoint(pos) returns
\* for the point projected along the normal of this contact
RemovePredicate(p, contact) ==
    LET current == IF contact.index # p.m_lastIndex
                   THEN 0 ELSE p.m_currentContacts
    IN  [p |-> [m_lastIndex |-> contact.index,
                m_currentContacts |-> current + 1],
         remove |-> (current > k_maxContactsPerPoint
                     \/ ~contact.fixture.testPoint)]

\* BodyContactCompare(lhs, rhs)
BodyContactCompare(lhs, rhs) ==
    IF lhs.index = rhs.index
    THEN lhs.weight > rhs.weight
    ELSE lhs.index < rhs.index

RemoveAt(seq, k) == SubSeq(seq, 1, k - 1) \o SubSeq(seq, k + 1, Len(seq))

\* std::sort with BodyContactCompare: contacts that compare equal may come
\* out in either order
RECURSIVE SortBodyContacts(_)
SortBodyContacts(contacts) ==
    IF contacts = <<>>
    THEN {<<>>}
    ELSE UNION {{<<contacts[k]>> \o rest :
                    rest \in SortBodyContacts(RemoveAt(contacts, k))}
                : k \in {k \in DOMAIN contacts :
                            \A j \in DOMAIN contacts :
                                ~BodyContactCompare(contacts[j], contacts[k])}}

\* the loop of std::remove_if over contacts[k..] with the predicate object p:
\* the contacts it keeps, after those of kept
RECURSIVE RemoveIf(_, _, _, _)
RemoveIf(contacts, k, p, kept) ==
    IF k > Len(contacts)
    THEN kept
    ELSE LET q == RemovePredicate(p, contacts[k])
         IN  RemoveIf(contacts, k + 1, q.p,
                      IF q.remove THEN kept ELSE Append(kept, contacts[k]))

\* std::find_if over contacts[k..] with the predicate object p: the place of
\* the first contact to remove, Len(contacts) + 1 if there is none
RECURSIVE FindIf(_, _, _)
FindIf(contacts, k, p) ==
    IF k > Len(contacts)
    THEN k
    ELSE LET q == RemovePredicate(p, contacts[k])
         IN  IF q.remove THEN k
             ELSE FindIf(contacts, k + 1, q.p)

\* std::remove_if takes the predicate by value and may copy it.  Either one
\* predicate object sees every contact, or (libstdc++, libc++) a copy made
\* for std::find_if sees the contacts up to the first removed one and the
\* object as constructed sees the contacts after it.
RemoveIfOutcomes(contacts) ==
    LET first == FindIf(contacts, 1, NewRemovePredicate)
    IN  { RemoveIf(contacts, 1, NewRemovePredicate, <<>>),
          RemoveIf(contacts, first + 1, NewRemovePredicate,
                   SubSeq(contacts, 1, first - 1)) }

\* lines 1107-1134; m_bodyContactCount -= discarded leaves the contacts that
\* std::remove_if has kept
RemoveSpuriousBodyContacts(s) ==
    UNION {{[s EXCEPT !.m_bodyContactBuffer = kept] : kept \in RemoveIfOutcomes(sorted)}
           : sorted \in SortBodyContacts(s.m_bodyContactBuffer)}

\* lines 983-1105: reported are the contacts that the callback of
\* m_world->QueryAABB appends for the fixtures of the world
UpdateBodyContactsInWorld(s, reported) ==
    LET s1 == [s EXCEPT !.m_bodyContactBuffer = reported]
    IN  IF s.m_strictContactCheck
        THEN RemoveSpuriousBodyContacts(s1)
        ELSE {s1}

\* The world of the model holds no body: UpdateBodyContacts leaves
\* m_bodyContactCount = 0, and the loops over body contacts and fixtures in
\* the kernels do nothing.
UpdateBodyContacts(s) == [s EXCEPT !.m_bodyContactBuffer = <<>>]

\* lines 2300-2303
SetStrictContactCheck(s, enabled) == [s EXCEPT !.m_strictContactCheck = enabled]

\* m_weightBuffer is scratch of the kernels that compute the size of an
\* impulse; the model takes those sizes as inputs
ComputeWeight(s) == s

\* lines 830-843 over the groups list[k..]: the depth of the flagged groups
\* is recomputed and their flag is cleared
RECURSIVE ComputeDepthOfGroups(_, _, _)
ComputeDepthOfGroups(s, list, k) ==
    IF k > Len(list)
    THEN s
    ELSE ComputeDepthOfGroups(
             IF b2_particleGroupNeedsUpdateDepth \in s.groups[list[k]].m_groupFlags
             THEN SetParticleGroupFlags(s, list[k],
                      s.groups[list[k]].m_groupFlags \
                          {b2_particleGroupNeedsUpdateDepth})
             ELSE s,
             list, k + 1)

\* faulty variant: the two blocks are freed in the order of their allocation
ComputeDepthFreeingOldestFirst(s) ==
    LET s1 == StackAllocate(StackAllocate(s, "contactGroups"), "groupsToUpdate")
        s2 == ComputeDepthOfGroups(s1, s1.m_groupList, 1)
    IN  StackFree(StackFree(s2, "contactGroups"), "groupsToUpdate")

\* lines 811-812, 827-828, 903-904: the two blocks of ComputeDepth
ComputeDepth(s) ==
    LET s1 == StackAllocate(StackAllocate(s, "contactGroups"), "groupsToUpdate")
        s2 == ComputeDepthOfGroups(s1, s1.m_groupList, 1)
    IN  StackFree(StackFree(s2, "groupsToUpdate"), "contactGroups")

\* The values of m_weightBuffer and m_depthBuffer.  Weights are counted in
\* units of 1 / WeightOne: a contact at distance 0 has weight WeightOne.
\* They are kept where the contacts carry their weight; elsewhere the two
\* buffers are left as the constructor leaves them.
WeightOne == 10

\* 0.8f, line 851
SurfaceWeight == 8

\* b2_maxFloat, and the float sum x + r, which is b2_maxFloat for x = b2_maxFloat
b2_maxFloat == 1000000
FloatAdd(x, r) == IF x = b2_maxFloat THEN b2_maxFloat ELSE x + r

\* (int32) b2Sqrt((float) n)
IntSqrt(n) == CHOOSE k \in 0 .. n : k * k <= n /\ n < (k + 1) * (k + 1)

\* lines 786-806: the sum of the weights of the contacts of each particle
ComputeWeightValues(s) ==
    LET RECURSIVE Sum(_, _)
        Sum(i, k) ==
            IF k = 0 THEN 0
            ELSE Sum(i, k - 1)
                 + (IF s.m_contactBuffer[k].indexA = i THEN s.m_contactBuffer[k].weight ELSE 0)
                 + (IF s.m_contactBuffer[k].indexB = i THEN s.m_contactBuffer[k].weight ELSE 0)
        RECURSIVE BodySum(_, _)
        BodySum(i, k) ==
            IF k = 0 THEN 0
            ELSE BodySum(i, k - 1)
                 + (IF s.m_bodyContactBuffer[k].index = i
                    THEN s.m_bodyContactBuffer[k].weight ELSE 0)
    IN  [i \in Indices(s.m_count) |->
            BodySum(i, Len(s.m_bodyContactBuffer)) + Sum(i, Len(s.m_contactBuffer))]

\* lines 859-881: one pass over contactGroups[k..]
RECURSIVE DepthPass(_, _, _, _)
DepthPass(contactGroups, k, depth, updated) ==
    IF k > Len(contactGroups)
    THEN [depth |-> depth, updated |-> updated]
    ELSE LET a == contactGroups[k].indexA
             b == contactGroups[k].indexB
             r == WeightOne - contactGroups[k].weight
             ap0 == depth[a]
             bp0 == depth[b]
             ap1 == FloatAdd(bp0, r)
             bp1 == FloatAdd(ap0, r)
             d1 == IF ap0 > ap1 THEN [depth EXCEPT ![a] = ap1] ELSE depth
             d2 == IF bp0 > bp1 THEN [d1 EXCEPT ![b] = bp1] ELSE d1
         IN  DepthPass(contactGroups, k + 1, d2,
                       updated \/ ap0 > ap1 \/ bp0 > bp1)

\* lines 856-886: the passes t, t + 1, ... below iterationCount
RECURSIVE DepthPasses(_, _, _, _)
DepthPasses(contactGroups, t, iterationCount, depth) ==
    IF t >= iterationCount
    THEN depth
    ELSE LET pass == DepthPass(contactGroups, 1, depth, FALSE)
         IN  IF ~pass.updated
             THEN pass.depth
             ELSE DepthPasses(contactGroups, t + 1, iterationCount, pass.depth)

\* lines 811-902: the depth buffer that ComputeDepth leaves.  The depth is a
\* length: p *= m_particleDiameter turns p, counted in units of
\* 1 / WeightOne, into diameter * p / WeightOne
ComputeDepthValues(s, diameter) ==
    LET flagged(g) == b2_particleGroupNeedsUpdateDepth \in s.groups[g].m_groupFlags
        contactGroups ==
            SelectSeq(s.m_contactBuffer,
                      LAMBDA contact :
                          /\ s.m_groupBuffer[contact.indexA] # NULL
                          /\ s.m_groupBuffer[contact.indexA] = s.m_groupBuffer[contact.indexB]
                          /\ flagged(s.m_groupBuffer[contact.indexA]))
        groupsToUpdate == SelectSeq(s.m_groupList, flagged)
        updatedParticles ==
            {i \in Indices(s.m_count) :
                \E k \in DOMAIN groupsToUpdate :
                    ContainsParticle(s.groups[groupsToUpdate[k]], i)}
        d0 == [i \in Indices(s.m_count) |->
                  IF i \in updatedParticles
                  THEN IF s.m_weightBuffer[i] < SurfaceWeight THEN 0 ELSE b2_maxFloat
                  ELSE s.m_depthBuffer[i]]
        d1 == DepthPasses(contactGroups, 0, IntSqrt(s.m_count), d0)
    IN  [i \in Indices(s.m_count) |->
            IF i \in updatedParticles
            THEN IF d1[i] < b2_maxFloat THEN (d1[i] * diameter) \div WeightOne ELSE 0
            ELSE d1[i]]

\* faulty variant: the impulse is given to one particle only
ApplyImpulseToOneEnd(v, a, b, f) == [v EXCEPT ![a] = VecSub(@, f)]

\* v[a] -= f; v[b] += f
ApplyImpulse(v, a, b, f) ==
    LET v1 == [v EXCEPT ![a] = VecSub(@, f)]
    IN  [v1 EXCEPT ![b] = VecAdd(@, f)]

\* the loop of a kernel over the contacts or pairs ends[k..], each <<a, b>>.
\* The size of f is a float the kernels compute from weights, strengths and
\* distances; the model does not compute it and takes it as an input, along
\* the y axis
RECURSIVE ApplyImpulses(_, _, _, _)
ApplyImpulses(v, ends, k, f) ==
    IF k > Len(ends)
    THEN v
    ELSE ApplyImpulses(ApplyImpulse(v, ends[k][1], ends[k][2], f), ends, k + 1, f)

\* <<indexA, indexB>> of the contacts or pairs that pass a kernel's test
EndsAB(items, Test(_)) ==
    LET chosen == SelectSeq(items, Test)
    IN  [k \in DOMAIN chosen |-> <<chosen[k].indexA, chosen[k].indexB>>]

\* <<indexB, indexA>> of the contacts that pass a kernel's test
EndsBA(items, Test(_)) ==
    LET chosen == SelectSeq(items, Test)
    IN  [k \in DOMAIN chosen |-> <<chosen[k].indexB, chosen[k].indexA>>]

\* lines 1906-1919: v[a] += f; v[b] -= f
SolveViscous(s, f) ==
    [s EXCEPT !.m_velocityBuffer.data =
        ApplyImpulses(@, EndsBA(s.m_contactBuffer,
                                LAMBDA c : b2_viscousParticle \in c.flags), 1, f)]

\* contact.weight > 1 - b2_particleStride, with weight = 1 - dist / diameter
\* and b2_particleStride = 3/4
IsPowderContact(s, c) ==
    LET d == VecSub(s.m_positionBuffer.data[c.indexB],
                    s.m_positionBuffer.data[c.indexA])
    IN  /\ b2_powderParticle \in c.flags
        /\ 16 * b2Dot(d, d) < 9 * m_squaredDiameter

SolvePowder(s, f) ==
    [s EXCEPT !.m_velocityBuffer.data =
        ApplyImpulses(@, EndsAB(s.m_contactBuffer,
                                LAMBDA c : IsPowderContact(s, c)), 1, f)]

\* lines 1866-1883
SolveTensile(s, f) ==
    [s EXCEPT !.m_velocityBuffer.data =
        ApplyImpulses(@, EndsAB(s.m_contactBuffer,
                                LAMBDA c : b2_tensileParticle \in c.flags), 1, f)]

SolveSolid(s, f) ==
    [s EXCEPT !.m_velocityBuffer.data =
        ApplyImpulses(@, EndsAB(s.m_contactBuffer,
                                LAMBDA c : s.m_groupBuffer[c.indexA] #
                                           s.m_groupBuffer[c.indexB]), 1, f)]

\* b2ParticleColor::MixColors on one channel of 8 bits:
\* dr = (strength * (colorB - colorA)) >> 8; colorA += dr; colorB -= dr
MixColors(color, a, b, strength) ==
    LET dr == (strength * (color[b] - color[a])) \div 256
        c1 == [color EXCEPT ![a] = (@ + dr) % 256]
    IN  [c1 EXCEPT ![b] = (@ - dr) % 256]

\* (int32) (128 * m_def.colorMixingStrength), colorMixingStrength = 0.5
colorMixing128 == 64

RECURSIVE MixContacts(_, _, _)
MixContacts(s, color, k) ==
    IF k > Len(s.m_contactBuffer)
    THEN color
    ELSE LET a == s.m_contactBuffer[k].indexA
             b == s.m_contactBuffer[k].indexB
         IN  MixContacts(s,
                 IF b2_colorMixingParticle \in
                        (s.m_flagsBuffer.data[a] \cap s.m_flagsBuffer.data[b])
                 THEN MixColors(color, a, b, colorMixing128)
                 ELSE color,
                 k + 1)

SolveColorMixing(s) ==
    [s EXCEPT !.m_colorBuffer.data = MixContacts(s, @, 1)]

\* faulty variant: every sub-step adds the gravity of the whole step
SolveGravityOfWholeStep(s, timeStep) ==
    LET gravity == VecScale(timeStep.dt, <<0, -1>>)
    IN  [s EXCEPT
           !.m_velocityBuffer.data = [i \in DOMAIN @ |-> VecAdd(@[i], gravity)]]

\* the world's gravity is <<0, -1>> and m_gravityScale is 1
SolveGravity(s, timeStep) ==
    LET gravity == VecScale(SubStepDt(timeStep), <<0, -1>>)
    IN  [s EXCEPT
           !.m_velocityBuffer.data = [i \in DOMAIN @ |-> VecAdd(@[i], gravity)]]

\* writes m_staticPressureBuffer only, which SolvePressure adds to the
\* pressure that sizes its impulse
SolveStaticPressure(s) == s

\* lines 1645-1656: v[a] -= f; v[b] += f for every contact
SolvePressure(s, f) ==
    [s EXCEPT !.m_velocityBuffer.data =
        ApplyImpulses(@, EndsAB(s.m_contactBuffer, LAMBDA c : TRUE), 1, f)]

\* vn = b2Dot(v[b] - v[a], n) < 0, with n = (p[b] - p[a]) / dist
IsApproaching(s, v, c) ==
    b2Dot(VecSub(v[c.indexB], v[c.indexA]),
          VecSub(s.m_positionBuffer.data[c.indexB],
                 s.m_positionBuffer.data[c.indexA])) < 0

\* lines 1685-1702 over contacts[k..]: v[a] += f; v[b] -= f where the two
\* particles approach each other at the velocities they have by then
RECURSIVE DampContacts(_, _, _, _)
DampContacts(s, v, k, f) ==
    IF k > Len(s.m_contactBuffer)
    THEN v
    ELSE LET c == s.m_contactBuffer[k]
         IN  DampContacts(s,
                 IF IsApproaching(s, v, c)
                 THEN ApplyImpulse(v, c.indexB, c.indexA, f)
                 ELSE v,
                 k + 1, f)

SolveDamping(s, f) ==
    [s EXCEPT !.m_velocityBuffer.data = DampContacts(s, @, 1, f)]

\* a loop over body contacts
SolveExtraDamping(s) == s

\* lines 1774-1810 over triads[k..]: the three impulses of a triad,
\* strength * (b2Mul(r, o) - p), add up to zero, o and p being offsets from
\* a centroid; the model gives f to indexA and to indexB and -2f to indexC
RECURSIVE SolveElasticTriads(_, _, _, _)
SolveElasticTriads(triads, v, k, f) ==
    IF k > Len(triads)
    THEN v
    ELSE SolveElasticTriads(triads,
             IF b2_elasticParticle \in triads[k].flags
             THEN ApplyImpulse(ApplyImpulse(v, triads[k].indexC, triads[k].indexA, f),
                               triads[k].indexC, triads[k].indexB, f)
             ELSE v,
             k + 1, f)

SolveElastic(s, f) ==
    [s EXCEPT !.m_velocityBuffer.data = SolveElasticTriads(s.m_triadBuffer, @, 1, f)]

\* lines 1816-1837: va -= f; vb += f for every spring pair
SolveSpring(s, f) ==
    [s EXCEPT !.m_velocityBuffer.data =
        ApplyImpulses(@, EndsAB(s.m_pairBuffer,
                                LAMBDA p : b2_springParticle \in p.flags), 1, f)]

\* v *= b2Sqrt(criticalVelocitySquared / v2); the velocities of the model lie
\* on an axis, where the square root is exact
LimitVelocity(s, timeStep) ==
    LET c == GetCriticalVelocity(timeStep)
    IN  [s EXCEPT
           !.m_velocityBuffer.data =
               [i \in DOMAIN @ |->
                   IF b2Dot(@[i], @[i]) > c * c
                   THEN <<Sgn(@[i][1]) * c, Sgn(@[i][2]) * c>>
                   ELSE @[i]]]

\* lines 1283-1303: a barrier particle that is also a wall is stopped; one of
\* a rigid group takes the group's motion, a translation at velocity g in
\* the model
BarrierParticleVelocity(s, v, i, g) ==
    IF b2_barrierParticle \notin s.m_flagsBuffer.data[i] THEN v[i]
    ELSE IF b2_wallParticle \in s.m_flagsBuffer.data[i] THEN b2Vec2_zero
    ELSE IF b2_rigidParticleGroup \in s.groups[s.m_groupBuffer[i]].m_groupFlags
         THEN g
    ELSE v[i]

\* line 1292 reads m_groupBuffer[i]->m_groupFlags: the group is not NULL
SolveBarrierDefined(s) ==
    \A i \in Indices(s.m_count) :
        (/\ b2_barrierParticle \in s.m_flagsBuffer.data[i]
         /\ b2_wallParticle \notin s.m_flagsBuffer.data[i])
        => s.m_groupBuffer[i] # NULL

\* twice b2_barrierCollisionTime, which is 2.5
b2_barrierCollisionTimeDoubled == 5

\* faulty variant: the particle c keeps its velocity
BarrierKeepVelocity(s, timeStep, a, b, c, va, vb, vc) == vc

\* lines 1345-1390: the velocity of c after the test against the pair (a, b).
\* The velocities of the model lie on the y axis, so e2 = b2Cross(vba, vca)
\* is 0 and the branch of line 1358 is the one taken; t = -e0 / e1 and
\* s = b2Dot(qba, qca) / b2Dot(qba, qba) are compared as fractions, and
\* va + s * vba is rounded down to the unit of velocity
BarrierVelocity(s, timeStep, a, b, c, va, vb, vc) ==
    LET pba == VecSub(s.m_positionBuffer.data[b], s.m_positionBuffer.data[a])
        pca == VecSub(s.m_positionBuffer.data[c], s.m_positionBuffer.data[a])
        vba == VecSub(vb, va)
        vca == VecSub(vc, va)
        e2 == b2Cross(vba, vca)
        e1 == b2Cross(pba, vca) - b2Cross(pca, vba)
        e0 == b2Cross(pba, pca)
        qba == VecSub(VecScale(e1, pba), VecScale(e0, vba))
        qca == VecSub(VecScale(e1, pca), VecScale(e0, vca))
        sn == b2Dot(qba, qca)
        sd == b2Dot(qba, qba)
    IN  IF e2 # 0 \/ e1 = 0 THEN vc
        ELSE IF e0 * e1 > 0 THEN vc
        ELSE IF -2 * e0 * e1 >
                    b2_barrierCollisionTimeDoubled * SubStepDt(timeStep) * e1 * e1
             THEN vc
        ELSE IF sd = 0 \/ sn < 0 \/ sn > sd THEN vc
        ELSE <<va[1] + ((sn * vba[1]) \div sd), va[2] + ((sn * vba[2]) \div sd)>>

\* lines 1336-1392 over proxies[j .. last-1] for the pair (a, b)
RECURSIVE BarrierProxies(_, _, _, _, _, _, _, _, _, _, _)
BarrierProxies(s, timeStep, v, a, b, va, vb, lower, upper, j, last) ==
    IF j >= last
    THEN v
    ELSE LET c == s.m_proxyBuffer[j].index
             p == s.m_positionBuffer.data[c]
         IN  BarrierProxies(s, timeStep,
                 IF /\ lower[1] <= p[1] /\ p[1] <= upper[1]
                    /\ lower[2] <= p[2] /\ p[2] <= upper[2]
                    /\ s.m_groupBuffer[a] # s.m_groupBuffer[c]
                    /\ s.m_groupBuffer[b] # s.m_groupBuffer[c]
                 THEN [v EXCEPT ![c] =
                          BarrierVelocity(s, timeStep, a, b, c, va, vb, v[c])]
                 ELSE v,
                 a, b, va, vb, lower, upper, j + 1, last)

\* lines 1307-1394 over pairs[k..]
RECURSIVE BarrierPairs(_, _, _, _)
BarrierPairs(s, timeStep, v, k) ==
    IF k > Len(s.m_pairBuffer)
    THEN v
    ELSE LET pair == s.m_pairBuffer[k]
             pa == s.m_positionBuffer.data[pair.indexA]
             pb == s.m_positionBuffer.data[pair.indexB]
             lower == <<Min2(pa[1], pb[1]) - m_particleDiameter,
                        Min2(pa[2], pb[2]) - m_particleDiameter>>
             upper == <<Max2(pa[1], pb[1]) + m_particleDiameter,
                        Max2(pa[2], pb[2]) + m_particleDiameter>>
             proxies == s.m_proxyBuffer
             firstProxy == LowerBound(proxies, 1, Len(proxies), computeTag(lower))
             lastProxy == UpperBound(proxies, firstProxy,
                                     Len(proxies) + 1 - firstProxy,
                                     computeTag(upper))
         IN  BarrierPairs(s, timeStep,
                 IF b2_barrierParticle \in pair.flags
                 THEN BarrierProxies(s, timeStep, v, pair.indexA, pair.indexB,
                                     v[pair.indexA], v[pair.indexB],
                                     lower, upper, firstProxy, lastProxy)
                 ELSE v,
                 k + 1)

SolveBarrier(s, timeStep, g) ==
    LET v == [i \in DOMAIN s.m_velocityBuffer.data |->
                 BarrierParticleVelocity(s, s.m_velocityBuffer.data, i, g)]
    IN  [s EXCEPT !.m_velocityBuffer.data = BarrierPairs(s, timeStep, v, 1)]

\* the world holds no fixture for a particle to hit
SolveCollision(s) == s

\* lines 1747-1768: the particles of a rigid group take the group's motion,
\* which b2ParticleGroup::UpdateStatistics derives from them; in the model a
\* translation at velocity g
SolveRigid(s, g) ==
    [s EXCEPT
       !.m_velocityBuffer.data =
           [i \in DOMAIN @ |->
               IF \E k \in DOMAIN s.m_groupList :
                      /\ b2_rigidParticleGroup \in
                             s.groups[s.m_groupList[k]].m_groupFlags
                      /\ ContainsParticle(s.groups[s.m_groupList[k]], i)
               THEN g ELSE @[i]]]

\* faulty variant: only the first particle is looked at
SolveWallFirstParticle(s) ==
    [s EXCEPT
       !.m_velocityBuffer.data =
           [i \in DOMAIN @ |->
               IF i = 0 /\ b2_wallParticle \in s.m_flagsBuffer.data[i]
               THEN b2Vec2_zero ELSE @[i]]]

SolveWall(s) ==
    [s EXCEPT
       !.m_velocityBuffer.data =
           [i \in DOMAIN @ |->
               IF b2_wallParticle \in s.m_flagsBuffer.data[i]
               THEN b2Vec2_zero ELSE @[i]]]

\* lines 1487-1492
IntegratePositions(s, timeStep) ==
    [s EXCEPT
       !.m_positionBuffer.data =
           [i \in DOMAIN @ |->
               VecAdd(@[i], VecScale(SubStepDt(timeStep),
                                     s.m_velocityBuffer.data[i]))]]

\* faulty variant: Solve leaves the zombies in place
SolveHeadKeepingZombies(s) == [s EXCEPT !.m_iterationIndex = 0]

\* lines 1399-1414: Solve up to the sub-step loop
SolveHead(s) ==
    LET s1 == IF b2_zombieParticle \in s.m_allParticleFlags
              THEN SolveZombie(s) ELSE s
        s2 == IF s1.m_needsUpdateAllParticleFlags
              THEN UpdateAllParticleFlags(s1) ELSE s1
        s3 == IF s2.m_needsUpdateAllGroupFlags
              THEN UpdateAllGroupFlags(s2) ELSE s2
    IN  [s3 EXCEPT !.m_iterationIndex = 0]

\* lines 1419-1429: the start of a sub-step, up to the first kernel
SolveSubStepHead(s) ==
    {LET s2 == ComputeWeight(s1)
     IN  IF b2_particleGroupNeedsUpdateDepth \in s2.m_allGroupFlags
         THEN ComputeDepth(s2) ELSE s2
     : s1 \in UpdateContacts(
                  UpdateBodyContacts([s EXCEPT !.m_timestamp = @ + 1]), FALSE)}

\* the flags that switch the kernels on
k_extraDampingFlags == {b2_staticPressureParticle}

RunsViscous(s) == b2_viscousParticle \in s.m_allParticleFlags
RunsPowder(s) == b2_powderParticle \in s.m_allParticleFlags
RunsTensile(s) == b2_tensileParticle \in s.m_allParticleFlags
RunsSolid(s) == b2_solidParticleGroup \in s.m_allGroupFlags
RunsColorMixing(s) == b2_colorMixingParticle \in s.m_allParticleFlags
RunsStaticPressure(s) == b2_staticPressureParticle \in s.m_allParticleFlags
RunsExtraDamping(s) == (s.m_allParticleFlags \cap k_extraDampingFlags) # {}
RunsElastic(s) == b2_elasticParticle \in s.m_allParticleFlags
RunsSpring(s) == b2_springParticle \in s.m_allParticleFlags
RunsBarrier(s) == b2_barrierParticle \in s.m_allParticleFlags
RunsRigid(s) == b2_rigidParticleGroup \in s.m_allGroupFlags
RunsWall(s) == b2_wallParticle \in s.m_allParticleFlags

\* lines 1430-1492: the kernels of a sub-step and the integration; f is the
\* impulse of the kernels of this sub-step and the motion of rigid groups
SolveSubStepKernels(s, timeStep, f) ==
    LET Viscous(t) == IF RunsViscous(t) THEN SolveViscous(t, f) ELSE t
        Powder(t) == IF RunsPowder(t) THEN SolvePowder(t, f) ELSE t
        Tensile(t) == IF RunsTensile(t) THEN SolveTensile(t, f) ELSE t
        Solid(t) == IF RunsSolid(t) THEN SolveSolid(t, f) ELSE t
        ColorMixing(t) == IF RunsColorMixing(t) THEN SolveColorMixing(t) ELSE t
        StaticPressure(t) ==
            IF RunsStaticPressure(t) THEN SolveStaticPressure(t) ELSE t
        ExtraDamping(t) ==
            IF RunsExtraDamping(t) THEN SolveExtraDamping(t) ELSE t
        Elastic(t) == IF RunsElastic(t) THEN SolveElastic(t, f) ELSE t
        Spring(t) == IF RunsSpring(t) THEN SolveSpring(t, f) ELSE t
        Barrier(t) == IF RunsBarrier(t) THEN SolveBarrier(t, timeStep, f) ELSE t
        Rigid(t) == IF RunsRigid(t) THEN SolveRigid(t, f) ELSE t
        Wall(t) == IF RunsWall(t) THEN SolveWall(t) ELSE t
        s5 == ColorMixing(Solid(Tensile(Powder(Viscous(s)))))
        s9 == SolveDamping(
                  SolvePressure(
                      StaticPressure(SolveGravity(s5, timeStep)), f), f)
        s13 == LimitVelocity(Spring(Elastic(ExtraDamping(s9))), timeStep)
        s17 == Wall(Rigid(SolveCollision(Barrier(s13))))
    IN  [IntegratePositions(s17, timeStep) EXCEPT !.m_iterationIndex = @ + 1]

---------------------------------------------------------------------------
(* SetParticleMaxCount and SetParticle*Buffer *)

SetParticleMaxCount(s, count) == [s EXCEPT !.m_maxCount = count]

\* SetParticleBuffer<T>(buffer, newData, newCapacity)
SetParticleBuffer(buffer, newData, newCapacity) ==
    [buffer EXCEPT !.data = newData, !.userSuppliedCapacity = newCapacity]

SetParticleFlagsBuffer(s, buffer, capacity) ==
    [s EXCEPT !.m_flagsBuffer = SetParticleBuffer(@, buffer, capacity)]

SetParticlePositionBuffer(s, buffer, capacity) ==
    [s EXCEPT !.m_positionBuffer = SetParticleBuffer(@, buffer, capacity)]

SetParticleVelocityBuffer(s, buffer, capacity) ==
    [s EXCEPT !.m_velocityBuffer = SetParticleBuffer(@, buffer, capacity)]

\* a supplied color or user data buffer is storage the system need not allocate
SetParticleColorBuffer(s, buffer, capacity) ==
    [s EXCEPT !.m_colorBuffer =
        [SetParticleBuffer(@, buffer, capacity) EXCEPT !.allocated = TRUE]]

SetParticleUserDataBuffer(s, buffer, capacity) ==
    [s EXCEPT !.m_userDataBuffer =
        [SetParticleBuffer(@, buffer, capacity) EXCEPT !.allocated = TRUE]]

---------------------------------------------------------------------------
(* Inputs of the operations *)

ParticleDefs ==
    { [flags |-> {}, position |-> <<0, 0>>, velocity |-> <<0, -2>>,
       color |-> 0, userData |-> NULL],
      [flags |-> {b2_wallParticle}, position |-> <<-1, 1>>,
       velocity |-> <<0, 0>>, color |-> 1, userData |-> 1] }

GroupDefs ==
    { [flags |-> {}, groupFlags |-> {b2_particleGroupCanBeEmpty},
       position |-> <<0, 0>>, linearVelocity |-> <<0, 0>>,
       angularVelocity |-> 0, color |-> 0, userData |-> NULL, strength |-> 1,
       positionData |-> <<>>],
      [flags |-> {b2_elasticParticle}, groupFlags |-> {},
       position |-> <<0, 1>>, linearVelocity |-> <<0, 0>>,
       angularVelocity |-> 0, color |-> 0, userData |-> NULL, strength |-> 1,
       positionData |-> << <<0, 0>> >>],
      [flags |-> {b2_springParticle, b2_elasticParticle},
       groupFlags |-> {b2_solidParticleGroup},
       position |-> <<0, 2>>, linearVelocity |-> <<0, 0>>,
       angularVelocity |-> 0, color |-> 0, userData |-> NULL, strength |-> 2,
       positionData |-> << <<0, 0>>, <<-1, 0>> >>] }

\* axis-aligned boxes given to DestroyParticlesInShape
Shapes ==
    { [lowerBound |-> <<-1, -1>>, upperBound |-> <<1, 1>>],
      [lowerBound |-> <<-2, 0>>, upperBound |-> <<2, 4>>] }

\* b2TimeStep values given to Solve: each sub-step lasts one time unit
TimeSteps ==
    {[dt |-> n, particleIterations |-> n] : n \in 1 .. MaxIterations}

\* the impulses of the contact forces in a sub-step
Impulses == {<<0, 0>>, <<0, 1>>}

NoStep == [dt |-> 0, particleIterations |-> 0]

---------------------------------------------------------------------------
(* The particle system in a world: the operations as actions *)

Init ==
    /\ m_count = InitSys.m_count
    /\ m_internalAllocatedCapacity = InitSys.m_internalAllocatedCapacity
    /\ m_maxCount = InitSys.m_maxCount
    /\ m_flagsBuffer = InitSys.m_flagsBuffer
    /\ m_positionBuffer = InitSys.m_positionBuffer
    /\ m_velocityBuffer = InitSys.m_velocityBuffer
    /\ m_colorBuffer = InitSys.m_colorBuffer
    /\ m_userDataBuffer = InitSys.m_userDataBuffer
    /\ m_groupBuffer = InitSys.m_groupBuffer
    /\ m_proxyBuffer = InitSys.m_proxyBuffer
    /\ m_contactBuffer = InitSys.m_contactBuffer
    /\ m_bodyContactBuffer = InitSys.m_bodyContactBuffer
    /\ m_stackAllocator = InitSys.m_stackAllocator
    /\ m_weightBuffer = InitSys.m_weightBuffer
    /\ m_depthBuffer = InitSys.m_depthBuffer
    /\ m_pairBuffer = InitSys.m_pairBuffer
    /\ m_triadBuffer = InitSys.m_triadBuffer
    /\ m_groupList = InitSys.m_groupList
    /\ m_groupCount = InitSys.m_groupCount
    /\ groups = InitSys.groups
    /\ nextGroup = InitSys.nextGroup
    /\ m_allParticleFlags = InitSys.m_allParticleFlags
    /\ m_needsUpdateAllParticleFlags = InitSys.m_needsUpdateAllParticleFlags
    /\ m_allGroupFlags = InitSys.m_allGroupFlags
    /\ m_needsUpdateAllGroupFlags = InitSys.m_needsUpdateAllGroupFlags
    /\ m_timestamp = InitSys.m_timestamp
    /\ m_iterationIndex = InitSys.m_iterationIndex
    /\ m_strictContactCheck = InitSys.m_strictContactCheck
    /\ ret = InitSys.ret
    /\ locked = FALSE
    /\ pc = "idle"
    /\ step = NoStep
    /\ lastCall = "constructor"
    /\ calls = 0
    /\ ran = <<>>
    /\ impulse = b2Vec2_zero

\* an API call made between steps of the world or from one of its callbacks
Call(name) ==
    /\ pc = "idle"
    /\ calls < MaxCalls
    /\ calls' = calls + 1
    /\ lastCall' = name
    /\ UNCHANGED <<locked, pc, step, ran, impulse>>

Lock ==
    /\ pc = "idle" /\ ~locked
    /\ locked' = TRUE
    /\ lastCall' = "Lock"
    /\ Install(Sys)
    /\ UNCHANGED <<pc, step, calls, ran, impulse>>

Unlock ==
    /\ pc = "idle" /\ locked
    /\ locked' = FALSE
    /\ lastCall' = "Unlock"
    /\ Install(Sys)
    /\ UNCHANGED <<pc, step, calls, ran, impulse>>

DoCreateParticle ==
    /\ Call("CreateParticle")
    /\ m_count < MaxParticles
    /\ \E def \in ParticleDefs, tag \in UninitTags :
           Install(CreateParticle(Sys, locked, def, tag))

DoDestroyParticle ==
    /\ Call("DestroyParticle")
    /\ \E index \in Indices(m_count), callDestructionListener \in BOOLEAN :
           Install(DestroyParticle(Sys, index, callDestructionListener))

DoDestroyParticlesInShape ==
    /\ Call("DestroyParticlesInShape")
    /\ \E shape \in Shapes :
           Install(DestroyParticlesInShape(Sys, locked, shape, FALSE))

DoDestroyParticlesInGroup ==
    /\ Call("DestroyParticlesInGroup")
    /\ \E k \in DOMAIN m_groupList :
           Install(DestroyParticlesInGroup(Sys, locked, m_groupList[k], FALSE))

DoCreateParticleGroup ==
    /\ Call("CreateParticleGroup")
    /\ nextGroup <= MaxGroups
    /\ \E groupDef \in GroupDefs, tag \in UninitTags :
           /\ m_count + Len(groupDef.positionData) <= MaxParticles
           /\ \E s \in CreateParticleGroup(Sys, locked, groupDef, tag) : Install(s)

DoJoinParticleGroups ==
    /\ Call("JoinParticleGroups")
    /\ \E a, b \in DOMAIN m_groupList :
           /\ a # b
           /\ locked \/ JoinDefined(Sys, m_groupList[a], m_groupList[b])
           /\ \E s \in JoinParticleGroups(Sys, locked, m_groupList[a], m_groupList[b]) :
                  Install(s)

\* Solve is entered; with no particle it returns at once
SolveBegin ==
    /\ pc = "idle"
    /\ calls < MaxCalls
    /\ calls' = calls + 1
    /\ \E timeStep \in TimeSteps :
           /\ m_timestamp + timeStep.particleIterations <= MaxTimestamp
           /\ step' = timeStep
           /\ IF m_count = 0
              THEN Install(Sys) /\ pc' = "idle"
              ELSE Install(SolveHead(Sys)) /\ pc' = "substep"
    /\ lastCall' = "Solve"
    /\ UNCHANGED <<locked, ran, impulse>>

\* a sub-step begins: the contacts are rebuilt
SolveSubStep ==
    /\ pc = "substep"
    /\ \E s \in SolveSubStepHead(Sys) : Install(s)
    /\ pc' = "kernels"
    /\ UNCHANGED <<locked, step, lastCall, calls, ran, impulse>>

\* the kernels of the sub-step run; Solve returns after the last sub-step
SolveKernels ==
    /\ pc = "kernels"
    /\ \E f \in Impulses : Install(SolveSubStepKernels(Sys, step, f))
    /\ pc' = IF m_iterationIndex + 1 < step.particleIterations
             THEN "substep" ELSE "idle"
    /\ UNCHANGED <<locked, step, lastCall, calls, ran, impulse>>

Next ==
    \/ Lock
    \/ Unlock
    \/ DoCreateParticle
    \/ DoDestroyParticle
    \/ DoDestroyParticlesInShape
    \/ DoDestroyParticlesInGroup
    \/ DoCreateParticleGroup
    \/ DoJoinParticleGroups
    \/ SolveBegin
    \/ SolveSubStep
    \/ SolveKernels

Spec == Init /\ [][Next]_vars

---------------------------------------------------------------------------
(* The particle system with the flags of particles and groups set by the   *)
(* caller                                                                  *)

\* the flags given to SetParticleFlags
SetFlagsChoices == {{}, {b2_viscousParticle}}

\* the flags given to SetParticleGroupFlags
SetGroupFlagsChoices == {{}, {b2_solidParticleGroup}}

DoSetParticleFlags ==
    /\ Call("SetParticleFlags")
    /\ \E index \in Indices(m_count), newFlags \in SetFlagsChoices :
           Install(SetParticleFlags(Sys, index, newFlags))

DoSetParticleGroupFlags ==
    /\ Call("SetParticleGroupFlags")
    /\ \E k \in DOMAIN m_groupList, flags \in SetGroupFlagsChoices :
           Install(SetParticleGroupFlags(Sys, m_groupList[k], flags))

NextFlags ==
    \/ DoCreateParticle
    \/ DoDestroyParticle
    \/ DoCreateParticleGroup
    \/ DoJoinParticleGroups
    \/ DoSetParticleFlags
    \/ DoSetParticleGroupFlags
    \/ SolveBegin
    \/ SolveSubStep
    \/ SolveKernels

SpecFlags == Init /\ [][NextFlags]_vars

---------------------------------------------------------------------------
(* The particle system with user-supplied buffers and a particle limit *)

\* the capacities given to SetParticle*Buffer and SetParticleMaxCount: the
\* caller's buffer holds the particles there are
UserCapacities == {c \in 1 .. MaxUserCapacity : m_count <= c}

\* the caller's buffer: a copy of the particles' current values
UserCopy(buffer) ==
    [i \in Indices(m_count) |-> IF i \in DOMAIN buffer.data THEN buffer.data[i] ELSE 0]

DoSetParticleMaxCount ==
    /\ Call("SetParticleMaxCount")
    /\ \E count \in UserCapacities : Install(SetParticleMaxCount(Sys, count))

DoSetParticleFlagsBuffer ==
    /\ Call("SetParticleFlagsBuffer")
    /\ \E capacity \in UserCapacities :
           Install(SetParticleFlagsBuffer(Sys, UserCopy(m_flagsBuffer), capacity))

DoSetParticlePositionBuffer ==
    /\ Call("SetParticlePositionBuffer")
    /\ \E capacity \in UserCapacities :
           Install(SetParticlePositionBuffer(Sys, UserCopy(m_positionBuffer), capacity))

DoSetParticleVelocityBuffer ==
    /\ Call("SetParticleVelocityBuffer")
    /\ \E capacity \in UserCapacities :
           Install(SetParticleVelocityBuffer(Sys, UserCopy(m_velocityBuffer), capacity))

DoSetParticleColorBuffer ==
    /\ Call("SetParticleColorBuffer")
    /\ \E capacity \in UserCapacities :
           Install(SetParticleColorBuffer(Sys, UserCopy(m_colorBuffer), capacity))

DoSetParticleUserDataBuffer ==
    /\ Call("SetParticleUserDataBuffer")
    /\ \E capacity \in UserCapacities :
           Install(SetParticleUserDataBuffer(Sys, UserCopy(m_userDataBuffer), capacity))

NextCap ==
    \/ DoCreateParticle
    \/ DoSetParticleMaxCount
    \/ DoSetParticleFlagsBuffer
    \/ DoSetParticlePositionBuffer
    \/ DoSetParticleVelocityBuffer
    \/ DoSetParticleColorBuffer
    \/ DoSetParticleUserDataBuffer
    \/ SolveBegin
    \/ SolveSubStep
    \/ SolveKernels

SpecCap == Init /\ [][NextCap]_vars

---------------------------------------------------------------------------
(* The broad phase on its own: UpdateContacts applied to systems of up to  *)
(* ContactsMaxCount particles placed in the middle and at the edges of the *)
(* tag grid                                                                *)

ContactDef(position, flags) ==
    [flags |-> flags, position |-> position, velocity |-> <<0, 0>>,
     color |-> 0, userData |-> NULL]

ContactDefs ==
    { ContactDef(<<0, 0>>, {}),
      ContactDef(<<1, 0>>, {b2_wallParticle}),
      ContactDef(<<-1, 0>>, {}),
      ContactDef(<<1, 1>>, {b2_zombieParticle}),
      ContactDef(<<0, 2>>, {b2_springParticle}),
      ContactDef(<<-1, -1>>, {}),
      ContactDef(<<2, -1>>, {b2_tensileParticle}),
      ContactDef(<<4095, -1>>, {}),
      ContactDef(<<-4096, 0>>, {b2_wallParticle}),
      ContactDef(<<-4095, 0>>, {}),
      ContactDef(<<0, 4095>>, {}),
      ContactDef(<<0, -4096>>, {}) }

\* the system after CreateParticle(defs[1]), ..., CreateParticle(defs[n])
RECURSIVE CreatedFrom(_)
CreatedFrom(defs) ==
    IF defs = <<>>
    THEN InitSys
    ELSE CreateParticleUnlocked(CreatedFrom(SubSeq(defs, 1, Len(defs) - 1)),
                                defs[Len(defs)], TagOf(0, 0))

InitContacts ==
    /\ \E n \in 0 .. ContactsMaxCount :
           \E defs \in [1 .. n -> ContactDefs] :
               LET s == CreatedFrom(defs)
               IN  /\ m_count = s.m_count
                   /\ m_internalAllocatedCapacity = s.m_internalAllocatedCapacity
                   /\ m_flagsBuffer = s.m_flagsBuffer
                   /\ m_positionBuffer = s.m_positionBuffer
                   /\ m_velocityBuffer = s.m_velocityBuffer
                   /\ m_colorBuffer = s.m_colorBuffer
                   /\ m_userDataBuffer = s.m_userDataBuffer
                   /\ m_groupBuffer = s.m_groupBuffer
                   /\ m_proxyBuffer = s.m_proxyBuffer
                   /\ m_allParticleFlags = s.m_allParticleFlags
                   /\ m_needsUpdateAllParticleFlags = s.m_needsUpdateAllParticleFlags
                   /\ ret = s.ret
    /\ m_maxCount = InitSys.m_maxCount
    /\ m_contactBuffer = InitSys.m_contactBuffer
    /\ m_bodyContactBuffer = InitSys.m_bodyContactBuffer
    /\ m_stackAllocator = InitSys.m_stackAllocator
    /\ m_weightBuffer = InitSys.m_weightBuffer
    /\ m_depthBuffer = InitSys.m_depthBuffer
    /\ m_pairBuffer = InitSys.m_pairBuffer
    /\ m_triadBuffer = InitSys.m_triadBuffer
    /\ m_groupList = InitSys.m_groupList
    /\ m_groupCount = InitSys.m_groupCount
    /\ groups = InitSys.groups
    /\ nextGroup = InitSys.nextGroup
    /\ m_allGroupFlags = InitSys.m_allGroupFlags
    /\ m_needsUpdateAllGroupFlags = InitSys.m_needsUpdateAllGroupFlags
    /\ m_timestamp = InitSys.m_timestamp
    /\ m_iterationIndex = InitSys.m_iterationIndex
    /\ m_strictContactCheck = InitSys.m_strictContactCheck
    /\ locked = FALSE
    /\ pc = "idle"
    /\ step = NoStep
    /\ lastCall = "CreateParticle"
    /\ calls = 0
    /\ ran = <<>>
    /\ impulse = b2Vec2_zero

DoUpdateContacts ==
    /\ \E s \in UpdateContacts(Sys, FALSE) : Install(s)
    /\ lastCall' = "UpdateContacts(false)"
    /\ UNCHANGED <<locked, pc, step, calls, ran, impulse>>

DoUpdateContactsExceptZombie ==
    /\ \E s \in UpdateContacts(Sys, TRUE) : Install(s)
    /\ lastCall' = "UpdateContacts(true)"
    /\ UNCHANGED <<locked, pc, step, calls, ran, impulse>>

NextContacts ==
    \/ DoUpdateContacts
    \/ DoUpdateContactsExceptZombie

SpecContacts == InitContacts /\ [][NextContacts]_vars

---------------------------------------------------------------------------
(* Solve, one kernel at a time, on systems built by CreateParticle and     *)
(* CreateParticleGroup                                                     *)

SolveParticleDef(flags, position, velocity, color) ==
    [kind |-> "particle",
     def |-> [flags |-> flags, position |-> position, velocity |-> velocity,
              color |-> color, userData |-> NULL]]

SolveGroupDef(flags, groupFlags, velocity, positionData) ==
    [kind |-> "group",
     def |-> [flags |-> flags, groupFlags |-> groupFlags,
              position |-> <<0, 0>>, linearVelocity |-> velocity,
              angularVelocity |-> 0, color |-> 0, userData |-> NULL,
              strength |-> 1, positionData |-> positionData]]

\* a particle at rest at the origin
FreeParticle == SolveParticleDef({}, <<0, 0>>, <<0, 0>>, 0)

\* a particle below the x axis, moving towards it
ParticleC == SolveParticleDef({}, <<1, -2>>, <<0, 10>>, 0)

WallParticle == SolveParticleDef({b2_wallParticle}, <<0, 1>>, <<0, 3>>, 0)

FluidParticle ==
    SolveParticleDef({b2_viscousParticle, b2_powderParticle,
                      b2_tensileParticle, b2_staticPressureParticle,
                      b2_colorMixingParticle}, <<0, -1>>, <<0, 5>>, 5)

\* barrier wall particles one diameter apart, created one by one
ParticleA ==
    SolveParticleDef({b2_barrierParticle, b2_wallParticle}, <<0, 0>>, <<0, 0>>, 0)
ParticleB ==
    SolveParticleDef({b2_barrierParticle, b2_wallParticle}, <<2, 0>>, <<0, 0>>, 0)

\* the same two particles, created as a group
BarrierGroupAB ==
    SolveGroupDef({b2_barrierParticle, b2_wallParticle}, {}, <<0, 0>>,
                  << <<0, 0>>, <<2, 0>> >>)

\* two barrier wall particles in contact
BarrierGroupInContact ==
    SolveGroupDef({b2_barrierParticle, b2_wallParticle}, {}, <<0, 0>>,
                  << <<0, 0>>, <<1, 0>> >>)

SolidGroup ==
    SolveGroupDef({b2_springParticle, b2_elasticParticle},
                  {b2_solidParticleGroup}, <<0, 0>>,
                  << <<0, 0>>, <<1, 0>>, <<0, 1>> >>)

RigidWallGroup ==
    SolveGroupDef({b2_wallParticle}, {b2_rigidParticleGroup}, <<0, 1>>,
                  << <<0, -1>>, <<1, -1>> >>)

RigidBarrierGroup ==
    SolveGroupDef({b2_barrierParticle}, {b2_rigidParticleGroup}, <<0, 0>>,
                  << <<0, -1>>, <<1, -1>> >>)

\* a barrier particle that is no wall particle, created outside any group
BarrierParticle == SolveParticleDef({b2_barrierParticle}, <<0, 0>>, <<0, 0>>, 0)

\* the sequences of creation calls that build the systems Solve is run on
SolveCreations ==
    { <<>>,
      <<FreeParticle>>,
      <<BarrierParticle>>,
      <<BarrierGroupAB, ParticleC>>,
      <<ParticleA, ParticleB, ParticleC>>,
      <<BarrierGroupInContact, ParticleC>>,
      <<FreeParticle, FluidParticle>>,
      <<FluidParticle, FreeParticle>>,
      <<FreeParticle, WallParticle>>,
      <<FluidParticle, FluidParticle>>,
      <<SolidGroup>>,
      <<RigidWallGroup, FreeParticle>>,
      <<RigidBarrierGroup, ParticleC>> }

ApplyCreation(s, op) ==
    IF op.kind = "particle"
    THEN {CreateParticle(s, FALSE, op.def, TagOf(0, 0))}
    ELSE CreateParticleGroup(s, FALSE, op.def, TagOf(0, 0))

\* the systems the calls ops[1], ..., ops[n] can build
RECURSIVE SystemsCreatedBy(_)
SystemsCreatedBy(ops) ==
    IF ops = <<>>
    THEN {InitSys}
    ELSE UNION {ApplyCreation(s, ops[Len(ops)]) :
                    s \in SystemsCreatedBy(SubSeq(ops, 1, Len(ops) - 1))}

\* b2TimeStep values given to Solve: sub-steps of one or two time units
SolveTimeSteps ==
    {[dt |-> k * n, particleIterations |-> n] : n \in 1 .. MaxIterations, k \in 1 .. 2}

InitSolve ==
    /\ \E ops \in SolveCreations :
               \E s \in SystemsCreatedBy(ops) :
                   /\ m_count = s.m_count
                   /\ m_internalAllocatedCapacity = s.m_internalAllocatedCapacity
                   /\ m_maxCount = s.m_maxCount
                   /\ m_flagsBuffer = s.m_flagsBuffer
                   /\ m_positionBuffer = s.m_positionBuffer
                   /\ m_velocityBuffer = s.m_velocityBuffer
                   /\ m_colorBuffer = s.m_colorBuffer
                   /\ m_userDataBuffer = s.m_userDataBuffer
                   /\ m_groupBuffer = s.m_groupBuffer
                   /\ m_proxyBuffer = s.m_proxyBuffer
                   /\ m_contactBuffer = s.m_contactBuffer
                   /\ m_bodyContactBuffer = s.m_bodyContactBuffer
                   /\ m_stackAllocator = s.m_stackAllocator
                   /\ m_weightBuffer = s.m_weightBuffer
                   /\ m_depthBuffer = s.m_depthBuffer
                   /\ m_pairBuffer = s.m_pairBuffer
                   /\ m_triadBuffer = s.m_triadBuffer
                   /\ m_groupList = s.m_groupList
                   /\ m_groupCount = s.m_groupCount
                   /\ groups = s.groups
                   /\ nextGroup = s.nextGroup
                   /\ m_allParticleFlags = s.m_allParticleFlags
                   /\ m_needsUpdateAllParticleFlags = s.m_needsUpdateAllParticleFlags
                   /\ m_allGroupFlags = s.m_allGroupFlags
                   /\ m_needsUpdateAllGroupFlags = s.m_needsUpdateAllGroupFlags
                   /\ m_timestamp = s.m_timestamp
                   /\ m_iterationIndex = s.m_iterationIndex
                   /\ m_strictContactCheck = s.m_strictContactCheck
                   /\ ret = s.ret
    /\ locked = FALSE
    /\ pc = "idle"
    /\ step = NoStep
    /\ lastCall = "created"
    /\ calls = 0
    /\ ran = <<>>
    /\ impulse = b2Vec2_zero

\* lines 1430-1492: the kernels in the order of their calls, and the
\* integration of the positions
CodeOrderSpringFirst ==
    << "SolveViscous", "SolvePowder", "SolveTensile", "SolveSolid",
       "SolveColorMixing", "SolveGravity", "SolveStaticPressure",
       "SolvePressure", "SolveDamping", "SolveExtraDamping", "SolveSpring",
       "SolveElastic", "LimitVelocity", "SolveBarrier", "SolveCollision",
       "SolveRigid", "SolveWall", "IntegratePositions" >>

CodeOrder ==
    << "SolveViscous", "SolvePowder", "SolveTensile", "SolveSolid",
       "SolveColorMixing", "SolveGravity", "SolveStaticPressure",
       "SolvePressure", "SolveDamping", "SolveExtraDamping", "SolveElastic",
       "SolveSpring", "LimitVelocity", "SolveBarrier", "SolveCollision",
       "SolveRigid", "SolveWall", "IntegratePositions" >>

\* the place of a call in Solve's sub-step
PlaceOf(name) == CHOOSE k \in DOMAIN CodeOrder : CodeOrder[k] = name

\* Solve is at the call `name`, every call before it in the sub-step done
At(name) == pc = name

\* Solve is entered; with no particle it returns at once
EnterSolve ==
    /\ pc = "idle"
    /\ \E timeStep \in SolveTimeSteps :
           /\ m_timestamp + timeStep.particleIterations <= MaxTimestamp
           /\ step' = timeStep
           /\ IF m_count = 0
              THEN Install(Sys) /\ pc' = "idle"
              ELSE Install(SolveHead(Sys)) /\ pc' = "substep"
    /\ lastCall' = "Solve"
    /\ ran' = <<>>
    /\ UNCHANGED <<locked, calls, impulse>>

\* lines 1419-1429; the impulse of the kernels of the sub-step is drawn
BeginSubStep ==
    /\ pc = "substep"
    /\ \E s \in SolveSubStepHead(Sys) : Install(s)
    /\ ran' = <<"UpdateBodyContacts", "UpdateContacts", "ComputeWeight">> \o
              (IF b2_particleGroupNeedsUpdateDepth \in m_allGroupFlags
               THEN <<"ComputeDepth">> ELSE <<>>)
    /\ pc' = CodeOrder[1]
    /\ impulse' \in Impulses
    /\ UNCHANGED <<locked, step, lastCall, calls>>

\* the call `name` of the sub-step: made when `runs` holds, to one of the
\* states `results`, and passed over otherwise
Kernel(name, runs, results) ==
    /\ At(name)
    /\ IF runs
       THEN (\E s \in results : Install(s)) /\ ran' = Append(ran, name)
       ELSE Install(Sys) /\ UNCHANGED ran
    /\ pc' = CodeOrder[PlaceOf(name) + 1]
    /\ UNCHANGED <<locked, step, lastCall, calls, impulse>>

RunViscous ==
    Kernel("SolveViscous", RunsViscous(Sys),
           {SolveViscous(Sys, impulse)})
RunPowder ==
    Kernel("SolvePowder", RunsPowder(Sys),
           {SolvePowder(Sys, impulse)})
RunTensile ==
    Kernel("SolveTensile", RunsTensile(Sys),
           {SolveTensile(Sys, impulse)})
RunSolid ==
    Kernel("SolveSolid", RunsSolid(Sys),
           {SolveSolid(Sys, impulse)})
RunColorMixing ==
    Kernel("SolveColorMixing", RunsColorMixing(Sys), {SolveColorMixing(Sys)})
RunGravity ==
    Kernel("SolveGravity", TRUE, {SolveGravity(Sys, step)})
RunStaticPressure ==
    Kernel("SolveStaticPressure", RunsStaticPressure(Sys),
           {SolveStaticPressure(Sys)})
RunPressure ==
    Kernel("SolvePressure", TRUE, {SolvePressure(Sys, impulse)})
RunDamping ==
    Kernel("SolveDamping", TRUE, {SolveDamping(Sys, impulse)})
RunExtraDamping ==
    Kernel("SolveExtraDamping", RunsExtraDamping(Sys), {SolveExtraDamping(Sys)})
RunElastic ==
    Kernel("SolveElastic", RunsElastic(Sys),
           {SolveElastic(Sys, impulse)})
RunSpring ==
    Kernel("SolveSpring", RunsSpring(Sys),
           {SolveSpring(Sys, impulse)})
RunLimitVelocity ==
    Kernel("LimitVelocity", TRUE, {LimitVelocity(Sys, step)})
RunBarrier ==
    /\ RunsBarrier(Sys) => SolveBarrierDefined(Sys)
    /\ Kernel("SolveBarrier", RunsBarrier(Sys),
              {SolveBarrier(Sys, step, impulse)})
RunCollision ==
    Kernel("SolveCollision", TRUE, {SolveCollision(Sys)})
RunRigid ==
    Kernel("SolveRigid", RunsRigid(Sys), {SolveRigid(Sys, impulse)})
RunWall ==
    Kernel("SolveWall", RunsWall(Sys), {SolveWall(Sys)})

\* lines 1489-1492 and the end of the loop body; Solve returns after the
\* last sub-step
Integrate ==
    /\ At("IntegratePositions")
    /\ Install([IntegratePositions(Sys, step) EXCEPT !.m_iterationIndex = @ + 1])
    /\ ran' = Append(ran, "IntegratePositions")
    /\ pc' = IF m_iterationIndex + 1 < step.particleIterations
             THEN "substep" ELSE "idle"
    /\ UNCHANGED <<locked, step, lastCall, calls, impulse>>

NextSolve ==
    \/ EnterSolve
    \/ BeginSubStep
    \/ RunViscous
    \/ RunPowder
    \/ RunTensile
    \/ RunSolid
    \/ RunColorMixing
    \/ RunGravity
    \/ RunStaticPressure
    \/ RunPressure
    \/ RunDamping
    \/ RunExtraDamping
    \/ RunElastic
    \/ RunSpring
    \/ RunLimitVelocity
    \/ RunBarrier
    \/ RunCollision
    \/ RunRigid
    \/ RunWall
    \/ Integrate

SpecSolve == InitSolve /\ [][NextSolve]_vars

---------------------------------------------------------------------------
(* UpdateBodyContacts in a world with fixtures: the contacts reported for  *)
(* the fixtures are inputs                                                 *)

\* the weights of the reported contacts, in units of which 1 is some fixed
\* number; weight is 1 - d / diameter, larger for a nearer fixture
BodyContactWeights == {1, 2}

\* a fixture is known by what its TestPoint answers for the contact
Fixtures == {[testPoint |-> b] : b \in BOOLEAN}

\* the contacts the callback may append: up to MaxBodyContacts contacts of
\* particles of the system with fixtures of the world
ReportedBodyContacts(s) ==
    UNION {[1 .. n -> [index : Indices(s.m_count), fixture : Fixtures,
                       weight : BodyContactWeights]]
           : n \in 0 .. MaxBodyContacts}

\* the systems of one or two particles outside groups
InitBodyContacts == InitSolve /\ m_count \in {1, 2} /\ m_groupCount = 0

DoSetStrictContactCheck ==
    /\ calls = 0
    /\ \E enabled \in BOOLEAN :
           /\ enabled # m_strictContactCheck
           /\ Install(SetStrictContactCheck(Sys, enabled))
    /\ lastCall' = "SetStrictContactCheck"
    /\ UNCHANGED <<locked, pc, step, calls, ran, impulse>>

DoUpdateBodyContacts ==
    /\ calls < MaxBodyContactUpdates
    /\ calls' = calls + 1
    /\ \E reported \in ReportedBodyContacts(Sys) :
           \E s \in UpdateBodyContactsInWorld(Sys, reported) : Install(s)
    /\ lastCall' = "UpdateBodyContacts"
    /\ UNCHANGED <<locked, pc, step, ran, impulse>>

NextBodyContacts ==
    \/ DoSetStrictContactCheck
    \/ DoUpdateBodyContacts

SpecBodyContacts == InitBodyContacts /\ [][NextBodyContacts]_vars

---------------------------------------------------------------------------
(* ComputeWeight and ComputeDepth on particles of a line *)

\* The particles lie on the x axis, their positions counted in units of
\* m_particleDiameter / LineDiameter, so that contacts of different weights
\* exist.
LineDiameter == 10
LinePositions == {0, 1, 5, 10, 11}

\* lines 928-929: contact.weight = 1 - dist * m_inverseDiameter
LineWeight(dist) == WeightOne - (dist * WeightOne) \div LineDiameter

\* the particles in the order of their proxies, which is the order of x
LineOrder(xs) ==
    CHOOSE order \in [1 .. Len(xs) -> 1 .. Len(xs)] :
        \A j, k \in 1 .. Len(xs) : j < k => xs[order[j]] < xs[order[k]]

\* lines 932-981: the contacts of the line; UpdateContacts pairs every proxy
\* with the proxies that follow it, and AddContact keeps the pairs closer
\* than one diameter
RECURSIVE LineContacts(_, _, _, _, _)
LineContacts(xs, order, j, k, contacts) ==
    IF j > Len(xs) THEN contacts
    ELSE IF k > Len(xs) THEN LineContacts(xs, order, j + 1, j + 2, contacts)
    ELSE LET dist == xs[order[k]] - xs[order[j]]
         IN  LineContacts(xs, order, j, k + 1,
                 IF dist < LineDiameter
                 THEN Append(contacts,
                             [indexA |-> order[j] - 1, indexB |-> order[k] - 1,
                              flags |-> {}, weight |-> LineWeight(dist)])
                 ELSE contacts)

DepthGroupFlags ==
    { {b2_solidParticleGroup, b2_particleGroupNeedsUpdateDepth},
      {b2_solidParticleGroup} }

\* the system of the particles at xs: particles 0 .. split - 1 are the first
\* group, the others the second group, which was created later
LineSystem(xs, split, flagsOf) ==
    LET n == Len(xs)
        order == LineOrder(xs)
        two == split < n
        group1 == [m_firstIndex |-> 0, m_lastIndex |-> split,
                   m_groupFlags |-> flagsOf[1], m_strength |-> 1]
        group2 == [m_firstIndex |-> split, m_lastIndex |-> n,
                   m_groupFlags |-> flagsOf[2], m_strength |-> 1]
    IN  [InitSys EXCEPT
           !.m_count = n,
           !.m_internalAllocatedCapacity = n,
           !.m_flagsBuffer.data = [i \in Indices(n) |-> {}],
           !.m_positionBuffer.data = [i \in Indices(n) |-> <<xs[i + 1], 0>>],
           !.m_velocityBuffer.data = [i \in Indices(n) |-> b2Vec2_zero],
           !.m_groupBuffer = [i \in Indices(n) |-> IF i < split THEN 1 ELSE 2],
           !.m_proxyBuffer =
               [k \in 1 .. n |-> [index |-> order[k] - 1, tag |-> xs[order[k]]]],
           !.m_contactBuffer = LineContacts(xs, order, 1, 2, <<>>),
           !.m_weightBuffer = [i \in Indices(n) |-> 0],
           !.m_depthBuffer = [i \in Indices(n) |-> 0],
           !.m_groupList = IF two THEN <<2, 1>> ELSE <<1>>,
           !.m_groupCount = IF two THEN 2 ELSE 1,
           !.groups = IF two
                      THEN [@ EXCEPT ![1] = group1, ![2] = group2]
                      ELSE [@ EXCEPT ![1] = group1],
           !.nextGroup = IF two THEN 3 ELSE 2,
           !.m_allGroupFlags =
               IF two THEN flagsOf[1] \cup flagsOf[2] ELSE flagsOf[1]]

LineSystems ==
    { LineSystem(xs, split, flagsOf) :
        xs \in { ys \in UNION { [1 .. n -> LinePositions] : n \in 1 .. MaxParticles } :
                   \A j, k \in DOMAIN ys : j # k => ys[j] # ys[k] },
        split \in 1 .. MaxParticles,
        flagsOf \in [1 .. 2 -> DepthGroupFlags] }

InitDepth ==
    /\ \E s \in { t \in LineSystems : t.groups[1].m_lastIndex <= t.m_count } :
                   /\ m_count = s.m_count
                   /\ m_internalAllocatedCapacity = s.m_internalAllocatedCapacity
                   /\ m_maxCount = s.m_maxCount
                   /\ m_flagsBuffer = s.m_flagsBuffer
                   /\ m_positionBuffer = s.m_positionBuffer
                   /\ m_velocityBuffer = s.m_velocityBuffer
                   /\ m_colorBuffer = s.m_colorBuffer
                   /\ m_userDataBuffer = s.m_userDataBuffer
                   /\ m_groupBuffer = s.m_groupBuffer
                   /\ m_proxyBuffer = s.m_proxyBuffer
                   /\ m_contactBuffer = s.m_contactBuffer
                   /\ m_bodyContactBuffer = s.m_bodyContactBuffer
                   /\ m_stackAllocator = s.m_stackAllocator
                   /\ m_weightBuffer = s.m_weightBuffer
                   /\ m_depthBuffer = s.m_depthBuffer
                   /\ m_pairBuffer = s.m_pairBuffer
                   /\ m_triadBuffer = s.m_triadBuffer
                   /\ m_groupList = s.m_groupList
                   /\ m_groupCount = s.m_groupCount
                   /\ groups = s.groups
                   /\ nextGroup = s.nextGroup
                   /\ m_allParticleFlags = s.m_allParticleFlags
                   /\ m_needsUpdateAllParticleFlags = s.m_needsUpdateAllParticleFlags
                   /\ m_allGroupFlags = s.m_allGroupFlags
                   /\ m_needsUpdateAllGroupFlags = s.m_needsUpdateAllGroupFlags
                   /\ m_timestamp = s.m_timestamp
                   /\ m_iterationIndex = s.m_iterationIndex
                   /\ m_strictContactCheck = s.m_strictContactCheck
                   /\ ret = s.ret
    /\ locked = FALSE
    /\ pc = "idle"
    /\ step = NoStep
    /\ lastCall = "created"
    /\ calls = 0
    /\ ran = <<>>
    /\ impulse = b2Vec2_zero

\* line 1425
DoComputeWeight ==
    /\ pc = "idle"
    /\ pc' = "weight"
    /\ Install([ComputeWeight(Sys) EXCEPT !.m_weightBuffer = ComputeWeightValues(Sys)])
    /\ lastCall' = "ComputeWeight"
    /\ UNCHANGED <<locked, step, calls, ran, impulse>>

\* lines 1426-1429
DoComputeDepth ==
    /\ pc = "weight"
    /\ pc' = "depth"
    /\ b2_particleGroupNeedsUpdateDepth \in m_allGroupFlags
    /\ Install([ComputeDepth(Sys) EXCEPT
                  !.m_depthBuffer = ComputeDepthValues(Sys, LineDiameter)])
    /\ lastCall' = "ComputeDepth"
    /\ UNCHANGED <<locked, step, calls, ran, impulse>>

NextDepth ==
    \/ DoComputeWeight
    \/ DoComputeDepth

SpecDepth == InitDepth /\ [][NextDepth]_vars

---------------------------------------------------------------------------
(* Properties *)

\* the step in which the API operation `name` is called
Called(name) == pc = "idle" /\ calls' = calls + 1 /\ lastCall' = name

Zombies == {i \in Indices(m_count) : b2_zombieParticle \in m_flagsBuffer.data[i]}

\* the per-particle data and the structures that refer to particles
particleData ==
    << m_count, m_flagsBuffer, m_positionBuffer, m_velocityBuffer, m_colorBuffer,
       m_userDataBuffer, m_groupBuffer >>
structures ==
    << m_proxyBuffer, m_contactBuffer, m_pairBuffer, m_triadBuffer, m_groupList,
       m_groupCount, groups, nextGroup >>
flagCaches ==
    << m_allParticleFlags, m_needsUpdateAllParticleFlags, m_allGroupFlags,
       m_needsUpdateAllGroupFlags >>

\* C1: SolveZombie is an order-preserving compaction.  When Solve runs
\* SolveZombie, the count decreases by the number of zombie particles, and a
\* survivor at old index i ends at index i minus the number of zombies below
\* i, with its position, velocity, flags, color, user data and group kept.
C1_SolveZombieCompacts ==
    [][ (Called("Solve") /\ m_count > 0 /\ b2_zombieParticle \in m_allParticleFlags)
        => LET newIndex(i) == i - Cardinality({j \in Zombies : j < i})
           IN  /\ m_count' = m_count - Cardinality(Zombies)
               /\ \A i \in Indices(m_count) \ Zombies :
                    /\ m_positionBuffer'.data[newIndex(i)] = m_positionBuffer.data[i]
                    /\ m_velocityBuffer'.data[newIndex(i)] = m_velocityBuffer.data[i]
                    /\ m_flagsBuffer'.data[newIndex(i)] = m_flagsBuffer.data[i]
                    /\ m_groupBuffer'[newIndex(i)] = m_groupBuffer[i]
                    /\ m_colorBuffer.allocated =>
                         m_colorBuffer'.data[newIndex(i)] = m_colorBuffer.data[i]
                    /\ m_userDataBuffer.allocated =>
                         m_userDataBuffer'.data[newIndex(i)] = m_userDataBuffer.data[i]
      ]_vars

\* C1 witness: Solve has just compacted, before any sub-step ever ran; the
\* particle now at index 0 was created as the second particle of its group,
\* behind a particle that has been removed.
C1_witness ==
    /\ lastCall = "Solve" /\ pc = "substep" /\ m_timestamp = 0
    /\ m_count >= 1
    /\ m_positionBuffer.data[0] = <<-1, 2>>

\* C2: after every Solve, every index stored in a proxy, contact, pair or
\* triad lies in [0, count) and is the index of a particle that is not zombie.
C2_IndexIntegrityAfterSolve ==
    (lastCall = "Solve" /\ pc = "idle")
    => LET live(i) == i \in Indices(m_count) /\ i \notin Zombies
       IN  /\ \A k \in DOMAIN m_proxyBuffer : live(m_proxyBuffer[k].index)
           /\ \A k \in DOMAIN m_contactBuffer :
                live(m_contactBuffer[k].indexA) /\ live(m_contactBuffer[k].indexB)
           /\ \A k \in DOMAIN m_pairBuffer :
                live(m_pairBuffer[k].indexA) /\ live(m_pairBuffer[k].indexB)
           /\ \A k \in DOMAIN m_triadBuffer :
                /\ live(m_triadBuffer[k].indexA)
                /\ live(m_triadBuffer[k].indexB)
                /\ live(m_triadBuffer[k].indexC)

\* C2 witness: Solve has returned and left proxies, contacts, pairs and triads.
C2_witness ==
    /\ lastCall = "Solve" /\ pc = "idle"
    /\ m_proxyBuffer # <<>> /\ m_contactBuffer # <<>>
    /\ m_pairBuffer # <<>> /\ m_triadBuffer # <<>>

\* C3: for every group g of the group list and every index i in
\* [g.firstIndex, g.lastIndex), group[i] = g or particle i is zombie.
C3_GroupRangeOwnsItsParticles ==
    \A k \in DOMAIN m_groupList :
        LET g == m_groupList[k]
        IN  \A i \in groups[g].m_firstIndex .. (groups[g].m_lastIndex - 1) :
                \/ i \in Zombies
                \/ (i \in DOMAIN m_groupBuffer /\ m_groupBuffer[i] = g)

LockedNoOpCalls ==
    {"CreateParticle", "DestroyParticlesInShape", "DestroyParticlesInGroup",
     "CreateParticleGroup", "JoinParticleGroups"}

\* C7 (as the code has it): CreateParticle, DestroyParticlesInShape,
\* DestroyParticlesInGroup, CreateParticleGroup and JoinParticleGroups called
\* while the world is locked change nothing of the particles, groups,
\* proxies, contacts, pairs and triads; DestroyParticle does not look at the
\* lock and marks its particle zombie also while the world is locked.
C7_LockedCallsExceptDestroyParticle ==
    [][ /\ (locked /\ \E name \in LockedNoOpCalls : Called(name))
           => UNCHANGED <<particleData, structures, flagCaches>>
        /\ (locked /\ Called("DestroyParticle"))
           => /\ Cardinality(Zombies') >= Cardinality(Zombies)
              /\ Zombies' # {}
              /\ UNCHANGED <<m_count, structures>>
      ]_vars

\* C7 witness: CreateParticleGroup was called while the world is locked, with
\* particles in the system, and returned no group.
C7_witness ==
    /\ locked /\ lastCall = "CreateParticleGroup" /\ ret = NULL
    /\ m_count > 0

\* C7 as stated: every create/destroy/join API, DestroyParticle among them,
\* called while the world is locked leaves count, flags, groups, proxies,
\* pairs and triads unchanged.
C7_AllLockedCallsAreNoOps ==
    [][ (locked /\ \E name \in LockedNoOpCalls \cup {"DestroyParticle"} : Called(name))
        => UNCHANGED <<m_count, m_flagsBuffer, m_groupBuffer, m_groupList,
                       m_groupCount, groups, m_proxyBuffer, m_pairBuffer,
                       m_triadBuffer>>
      ]_vars

\* C8: DestroyParticle(i) only adds the zombie (and destructionListener) flag
\* to flags[i]; no operation other than Solve removes a particle, so a zombie
\* stays until the next Solve; and that Solve has removed every zombie
\* before a sub-step begins.
C8_DestroyIsDeferredToSolve ==
    /\ [][ /\ Called("DestroyParticle")
              => /\ \E i \in Indices(m_count) :
                      \E added \in {{b2_zombieParticle},
                                    {b2_zombieParticle, b2_destructionListener}} :
                          m_flagsBuffer' =
                              [m_flagsBuffer EXCEPT !.data[i] = @ \cup added]
                 /\ UNCHANGED <<m_count, m_positionBuffer, m_velocityBuffer,
                                m_colorBuffer, m_userDataBuffer, m_groupBuffer,
                                structures>>
           /\ ~Called("Solve")
              => /\ m_count' >= m_count
                 /\ Cardinality(Zombies') >= Cardinality(Zombies)
         ]_vars
    /\ [](pc \in {"substep", "kernels"} => Zombies = {})

\* C8 witness: DestroyParticle has just marked a particle, with the
\* destruction listener asked for, and the particle is still there.
C8_witness ==
    /\ lastCall = "DestroyParticle" /\ pc = "idle"
    /\ \E i \in Zombies : b2_destructionListener \in m_flagsBuffer.data[i]

\* the nonzero capacity limits in force
CapacityLimits ==
    { m_maxCount, m_flagsBuffer.userSuppliedCapacity,
      m_positionBuffer.userSuppliedCapacity, m_velocityBuffer.userSuppliedCapacity,
      m_colorBuffer.userSuppliedCapacity, m_userDataBuffer.userSuppliedCapacity }
    \ {0}

\* C5: 0 <= count <= internalCapacity, and internalCapacity does not exceed
\* the smallest nonzero user-supplied buffer capacity nor a nonzero maxCount.
C5_CapacityWithinLimits ==
    /\ 0 <= m_count
    /\ m_count <= m_internalAllocatedCapacity
    /\ \A limit \in CapacityLimits : m_internalAllocatedCapacity <= limit

\* C6: when count has reached a capacity limit (a user-supplied buffer's
\* capacity or maxCount), CreateParticle returns b2_invalidParticleIndex and
\* leaves count, the proxies, the particle data and the flag caches unchanged.
C6_CreateParticleFailsAtLimit ==
    [][ (Called("CreateParticle") /\ \E limit \in CapacityLimits : m_count >= limit)
        => /\ ret' = b2_invalidParticleIndex
           /\ UNCHANGED <<particleData, m_proxyBuffer, flagCaches>>
      ]_vars

\* the contacts were just rebuilt
AfterUpdateContacts == lastCall \in {"UpdateContacts(false)", "UpdateContacts(true)"}

DistanceSquared(a, b) ==
    LET d == VecSub(m_positionBuffer.data[b], m_positionBuffer.data[a])
    IN  b2Dot(d, d)

\* C4: with the positions inside the range of the tag grid, after
\* UpdateContacts(false) the contact list holds every unordered pair of
\* distinct particles closer than a diameter exactly once, and no other
\* pair; a contact's flags are the union of its particles' flags.
C4_ContactsAreTheClosePairs ==
    (/\ lastCall = "UpdateContacts(false)"
     /\ \A i \in Indices(m_count) : InTagRange(m_positionBuffer.data[i]))
    => LET ends(k) == {m_contactBuffer[k].indexA, m_contactBuffer[k].indexB}
       IN  /\ \A a, b \in Indices(m_count) :
                (a < b /\ DistanceSquared(a, b) < m_squaredDiameter)
                => Cardinality({k \in DOMAIN m_contactBuffer : ends(k) = {a, b}}) = 1
           /\ \A k \in DOMAIN m_contactBuffer :
                LET a == m_contactBuffer[k].indexA
                    b == m_contactBuffer[k].indexB
                IN  /\ a # b
                    /\ a \in Indices(m_count) /\ b \in Indices(m_count)
                    /\ DistanceSquared(a, b) < m_squaredDiameter
                    /\ m_contactBuffer[k].flags =
                           m_flagsBuffer.data[a] \cup m_flagsBuffer.data[b]

\* C4 witness: three particles at the edges of the grid, two of them in
\* contact in the first column of a row, the third in the last column of the
\* row before it, which the scan reaches and the distance test rejects.
C4_witness ==
    /\ lastCall = "UpdateContacts(false)"
    /\ m_count = 3
    /\ \E a, b, c \in Indices(m_count) :
           /\ m_positionBuffer.data[a] = <<4095, -1>>
           /\ m_positionBuffer.data[b] = <<-4096, 0>>
           /\ m_positionBuffer.data[c] = <<-4095, 0>>
    /\ Len(m_contactBuffer) = 1

\* C9 (as the code has it): the contacts of UpdateContacts join two
\* different particles, and are oriented by the order of the proxies, not of
\* the indices: the tag of indexA's position is not greater than the tag of
\* indexB's position.
C9_ContactsFollowProxyOrder ==
    AfterUpdateContacts
    => \A k \in DOMAIN m_contactBuffer :
           /\ m_contactBuffer[k].indexA # m_contactBuffer[k].indexB
           /\ TagLeq(computeTag(m_positionBuffer.data[m_contactBuffer[k].indexA]),
                     computeTag(m_positionBuffer.data[m_contactBuffer[k].indexB]))

\* C9 witness: UpdateContacts produced a contact whose indexA is the greater.
C9_witness ==
    /\ AfterUpdateContacts
    /\ \E k \in DOMAIN m_contactBuffer :
           m_contactBuffer[k].indexA > m_contactBuffer[k].indexB

\* C9 as stated: every contact produced by UpdateContacts has indexA < indexB.
C9_IndexALessThanIndexB ==
    AfterUpdateContacts
    => \A k \in DOMAIN m_contactBuffer :
           m_contactBuffer[k].indexA < m_contactBuffer[k].indexB

\* C10: immediately after UpdateContacts every proxy's tag is the tag of its
\* particle's current position, the proxies are in ascending tag order, and
\* the two particles of every contact lie in the same or in adjacent grid
\* cells, horizontally and vertically.
C10_ProxiesTaggedAndSorted ==
    AfterUpdateContacts
    => /\ \A k \in DOMAIN m_proxyBuffer :
            m_proxyBuffer[k].tag =
                computeTag(m_positionBuffer.data[m_proxyBuffer[k].index])
       /\ \A k \in 1 .. (Len(m_proxyBuffer) - 1) :
            TagLeq(m_proxyBuffer[k].tag, m_proxyBuffer[k + 1].tag)
       /\ \A k \in DOMAIN m_contactBuffer :
            LET cellA == CellOf(m_positionBuffer.data[m_contactBuffer[k].indexA])
                cellB == CellOf(m_positionBuffer.data[m_contactBuffer[k].indexB])
            IN  /\ cellA[1] - cellB[1] \in {-1, 0, 1}
                /\ cellA[2] - cellB[2] \in {-1, 0, 1}

\* C10 witness: UpdateContacts reordered the proxies and produced a contact
\* between particles of diagonally adjacent cells.
C10_witness ==
    /\ AfterUpdateContacts
    /\ \E k \in DOMAIN m_proxyBuffer : m_proxyBuffer[k].index # k - 1
    /\ \E k \in DOMAIN m_contactBuffer :
           LET cellA == CellOf(m_positionBuffer.data[m_contactBuffer[k].indexA])
               cellB == CellOf(m_positionBuffer.data[m_contactBuffer[k].indexB])
           IN  cellA[1] # cellB[1] /\ cellA[2] # cellB[2]

\* what a sub-step of Solve does, in the order the kernels are listed:
\* the rebuilding of the contacts and weights, the kernels, the integration
SubStepOrder ==
    << "UpdateBodyContacts", "UpdateContacts", "ComputeWeight", "ComputeDepth",
       "SolveViscous", "SolvePowder", "SolveTensile", "SolveSolid",
       "SolveColorMixing", "SolveGravity", "SolveStaticPressure",
       "SolvePressure", "SolveDamping", "SolveExtraDamping", "SolveElastic",
       "SolveSpring", "LimitVelocity", "SolveBarrier", "SolveCollision",
       "SolveRigid", "SolveWall", "IntegratePositions" >>

RankOf(name) == CHOOSE k \in DOMAIN SubStepOrder : SubStepOrder[k] = name

\* the kernels whose flag is in the flag caches, and those without a flag
EnabledKernels ==
    {"SolveGravity", "SolvePressure", "SolveDamping", "LimitVelocity",
     "SolveCollision"}
    \cup (IF b2_viscousParticle \in m_allParticleFlags THEN {"SolveViscous"} ELSE {})
    \cup (IF b2_powderParticle \in m_allParticleFlags THEN {"SolvePowder"} ELSE {})
    \cup (IF b2_tensileParticle \in m_allParticleFlags THEN {"SolveTensile"} ELSE {})
    \cup (IF b2_solidParticleGroup \in m_allGroupFlags THEN {"SolveSolid"} ELSE {})
    \cup (IF b2_colorMixingParticle \in m_allParticleFlags
          THEN {"SolveColorMixing"} ELSE {})
    \cup (IF b2_staticPressureParticle \in m_allParticleFlags
          THEN {"SolveStaticPressure", "SolveExtraDamping"} ELSE {})
    \cup (IF b2_elasticParticle \in m_allParticleFlags THEN {"SolveElastic"} ELSE {})
    \cup (IF b2_springParticle \in m_allParticleFlags THEN {"SolveSpring"} ELSE {})
    \cup (IF b2_barrierParticle \in m_allParticleFlags THEN {"SolveBarrier"} ELSE {})
    \cup (IF b2_rigidParticleGroup \in m_allGroupFlags THEN {"SolveRigid"} ELSE {})
    \cup (IF b2_wallParticle \in m_allParticleFlags THEN {"SolveWall"} ELSE {})

Rebuilt == {"UpdateBodyContacts", "UpdateContacts", "ComputeWeight", "ComputeDepth"}

\* a sub-step is past its rebuilding of the contacts and weights
InKernels == pc \notin {"idle", "substep"}

\* C11: in every sub-step of Solve, body contacts, particle contacts and
\* weights are rebuilt before any kernel runs; the enabled kernels run in the
\* order viscous, powder, tensile, solid, colorMixing, gravity,
\* staticPressure, pressure, damping, extraDamping, elastic, spring,
\* limitVelocity, barrier, collision, rigid, wall; the positions are
\* integrated only after the last kernel of the sub-step.
C11_KernelOrder ==
    /\ [] /\ InKernels =>
                /\ Len(ran) >= 3
                /\ SubSeq(ran, 1, 3) =
                       <<"UpdateBodyContacts", "UpdateContacts", "ComputeWeight">>
          /\ \A i, j \in DOMAIN ran : i < j => RankOf(ran[i]) < RankOf(ran[j])
          /\ (ran # <<>> /\ ran[Len(ran)] = "IntegratePositions") =>
                {ran[k] : k \in DOMAIN ran} \ (Rebuilt \cup {"IntegratePositions"})
                    = EnabledKernels
    /\ [][ /\ (InKernels /\ pc # "IntegratePositions") =>
                /\ m_positionBuffer' = m_positionBuffer
                /\ m_contactBuffer' = m_contactBuffer
                /\ m_proxyBuffer' = m_proxyBuffer
           /\ (pc = "IntegratePositions") =>
                /\ ran' = Append(ran, "IntegratePositions")
                /\ m_velocityBuffer' = m_velocityBuffer
      ]_vars

\* C11 witness: Solve has returned after two sub-steps, the second of which
\* ran the solid, elastic and spring kernels between the others.
C11_witness ==
    /\ pc = "idle" /\ lastCall = "Solve" /\ m_iterationIndex = 2
    /\ Len(ran) >= 12
    /\ \E i, j, k \in DOMAIN ran :
           /\ i < j /\ j < k
           /\ ran[i] = "SolveSolid" /\ ran[j] = "SolveElastic"
           /\ ran[k] = "SolveSpring"

WallParticles ==
    {i \in Indices(m_count) : b2_wallParticle \in m_flagsBuffer.data[i]}

\* C12: after Solve returns, every wall-flagged particle has velocity exactly
\* zero, whatever its velocity was before the call and whatever other
\* kernels (gravity, pressure, rigid, barrier, collision) acted on it.
C12_WallParticlesAtRest ==
    (pc = "idle" /\ lastCall = "Solve")
    => \A i \in WallParticles : m_velocityBuffer.data[i] = b2Vec2_zero

\* C12 witness: Solve has returned on a system with two wall particles of a
\* rigid group, whose sub-step applied a nonzero impulse in the pressure
\* kernel and a nonzero motion in the rigid kernel before the wall kernel.
C12_witness ==
    /\ pc = "idle" /\ lastCall = "Solve"
    /\ Cardinality(WallParticles) >= 2
    /\ impulse # b2Vec2_zero
    /\ \E i, j \in DOMAIN ran :
           i < j /\ ran[i] = "SolveRigid" /\ ran[j] = "SolveWall"

RECURSIVE SumOfVelocities(_, _)
SumOfVelocities(v, n) ==
    IF n = 0 THEN b2Vec2_zero ELSE VecAdd(SumOfVelocities(v, n - 1), v[n - 1])

\* the kernels whose particle-particle part is an exchange between the two
\* particles of a contact or pair
SymmetricKernels ==
    {"SolvePressure", "SolveSpring", "SolveViscous", "SolveTensile",
     "SolveSolid", "SolvePowder", "SolveDamping"}

\* C13: the particle-particle parts of the pressure, spring, viscous, tensile,
\* solid, powder and damping kernels each leave the sum of all particle
\* velocities unchanged: every contact or pair adds an impulse f to one
\* endpoint and subtracts the same f from the other.
C13_SymmetricKernelsKeepMomentum ==
    [][ (pc \in SymmetricKernels)
        => SumOfVelocities(m_velocityBuffer'.data, m_count') =
               SumOfVelocities(m_velocityBuffer.data, m_count)
      ]_vars

\* C13 witness: the damping kernel is about to run, a nonzero impulse being
\* applied, on a contact whose two particles approach each other; the kernels
\* before it have changed the velocities of both.
C13_witness ==
    /\ pc = "SolveDamping" /\ impulse # b2Vec2_zero
    /\ \E k \in DOMAIN m_contactBuffer :
           IsApproaching(Sys, m_velocityBuffer.data, m_contactBuffer[k])
    /\ \E i, j \in DOMAIN ran :
           i < j /\ ran[i] = "SolveViscous" /\ ran[j] = "SolvePressure"

\* what SolveZombie works on: the count, the particle buffers, proxies,
\* contacts, pairs, triads, the group list and the ranges of its groups
CompactedData(s) ==
    << s.m_count, s.m_flagsBuffer, s.m_positionBuffer, s.m_velocityBuffer,
       s.m_colorBuffer, s.m_userDataBuffer, s.m_groupBuffer, s.m_proxyBuffer,
       s.m_contactBuffer, s.m_pairBuffer, s.m_triadBuffer, s.m_groupList,
       s.m_groupCount,
       [k \in DOMAIN s.m_groupList |->
           << s.groups[s.m_groupList[k]].m_firstIndex,
              s.groups[s.m_groupList[k]].m_lastIndex >>] >>

BarrierScenario(gap) ==
    /\ m_count = 3
    /\ \A i \in {0, 1} :
           /\ m_flagsBuffer.data[i] = {b2_barrierParticle, b2_wallParticle}
           /\ m_positionBuffer.data[i] = <<i * gap, 0>>
    /\ m_flagsBuffer.data[2] = {}
    /\ m_positionBuffer.data[2][1] = 1

\* scenario S6: A and B are one diameter (2r) apart
ScenarioS6 == BarrierScenario(m_particleDiameter)

\* the first Solve has returned, and it had one iteration
AfterSolveWithOneIteration ==
    pc = "idle" /\ lastCall = "Solve" /\ m_timestamp = 1

SingleFreeParticle == m_count = 1 /\ m_flagsBuffer.data[0] = {}

\* gravityScale * gravity of the world of the model
ScaledGravity == <<0, -1>>

\* the first Solve on the system has returned
AfterFirstSolve ==
    pc = "idle" /\ lastCall = "Solve" /\ m_timestamp = step.particleIterations

\* C16: for a single flagless particle with no contacts and no rigid bodies,
\* one Solve with particleIterations = n >= 1 adds dt * gravityScale * gravity
\* to its velocity in total, in n equal increments, provided the critical
\* velocity is not exceeded, and each sub-step moves the position by
\* subStep.dt times the velocity after that sub-step's gravity increment.
\* S1: from rest at the origin, with dt = 1/60 s as the unit of time and
\* 1/360 m as the unit of length, gravity is (0,-1) and one Solve with n = 1
\* gives velocity (0,-1), that is (0,-1/6) m/s, and position (0,-1), that is
\* (0,-1/360) m.
C16_FreeParticleUnderGravity ==
    /\ [][ SingleFreeParticle =>
             LET v == m_velocityBuffer.data[0]
                 c == GetCriticalVelocity(step)
             IN  /\ pc = "SolveGravity" =>
                       m_velocityBuffer'.data[0] =
                           VecAdd(v, VecScale(SubStepDt(step), ScaledGravity))
                 /\ pc = "LimitVelocity" /\ b2Dot(v, v) <= c * c =>
                       m_velocityBuffer'.data[0] = v
                 /\ pc \in {CodeOrder[k] : k \in DOMAIN CodeOrder}
                          \ {"SolveGravity", "LimitVelocity"} =>
                       m_velocityBuffer'.data[0] = v
                 /\ pc = "IntegratePositions" =>
                       m_positionBuffer'.data[0] =
                           VecAdd(m_positionBuffer.data[0],
                                  VecScale(SubStepDt(step), v))
                 /\ pc \in {CodeOrder[k] : k \in DOMAIN CodeOrder}
                          \ {"IntegratePositions"} =>
                       m_positionBuffer'.data[0] = m_positionBuffer.data[0]
      ]_vars
    /\ [] /\ (SingleFreeParticle /\ AfterFirstSolve
                /\ step.dt <= GetCriticalVelocity(step)) =>
                m_velocityBuffer.data[0] = VecScale(step.dt, ScaledGravity)
          /\ (SingleFreeParticle /\ AfterFirstSolve
                /\ step = [dt |-> 1, particleIterations |-> 1]) =>
                /\ m_velocityBuffer.data[0] = <<0, -1>>
                /\ m_positionBuffer.data[0] = <<0, -1>>
          /\ (SingleFreeParticle /\ AfterFirstSolve
                /\ step = [dt |-> 2, particleIterations |-> 2]) =>
                /\ m_velocityBuffer.data[0] = <<0, -2>>
                /\ m_positionBuffer.data[0] = <<0, -3>>

\* C16 witness: the first Solve, of two sub-steps of one unit each, has
\* returned on the single free particle, which has fallen by three units.
C16_witness ==
    /\ SingleFreeParticle /\ AfterFirstSolve
    /\ step = [dt |-> 2, particleIterations |-> 2]
    /\ m_positionBuffer.data[0] = <<0, -3>>

GroupSize(g) == groups[g].m_lastIndex - groups[g].m_firstIndex

\* groups A and B of the list are distinct and non-empty, and no particle is
\* in the ranges of both
DisjointGroups(A, B) ==
    /\ A # B
    /\ GroupSize(A) > 0 /\ GroupSize(B) > 0
    /\ \/ groups[A].m_lastIndex <= groups[B].m_firstIndex
       \/ groups[B].m_lastIndex <= groups[A].m_firstIndex

\* the step is a call JoinParticleGroups(A, B), the world not being locked,
\* on disjoint groups
Joined(A, B) ==
    /\ Called("JoinParticleGroups") /\ ~locked
    /\ DisjointGroups(A, B)
    /\ JoinDefined(Sys, A, B)
    /\ Sys' \in JoinParticleGroupsUnlocked(Sys, A, B)

\* where the particles of A and of B are after JoinParticleGroups(A, B)
FormerA(A, B) ==
    groups'[A].m_firstIndex .. (groups'[A].m_firstIndex + GroupSize(A) - 1)
FormerB(A, B) ==
    (groups'[A].m_firstIndex + GroupSize(A)) ..
        (groups'[A].m_firstIndex + GroupSize(A) + GroupSize(B) - 1)

\* the listed groups a call of JoinParticleGroups can be given
JoinArguments ==
    {<<m_groupList[a], m_groupList[b]>> : a, b \in DOMAIN m_groupList}

\* C17: JoinParticleGroups(A, B) with A and B distinct, non-empty and disjoint
\* emits a pair for every current particle contact that has one endpoint in A
\* and the other in B (when the union range carries a pair flag), with
\* strength min(A.strength, B.strength) and rest distance |p_a - p_b|.
C17_JoinEmitsCrossPairs ==
    [][ \A AB \in JoinArguments :
          LET A == AB[1]
              B == AB[2]
          IN  (/\ Joined(A, B)
               /\ \E i \in FormerA(A, B) \cup FormerB(A, B) :
                      (m_flagsBuffer'.data[i] \cap k_pairFlags) # {})
              => \A k \in DOMAIN m_contactBuffer' :
                    LET a == m_contactBuffer'[k].indexA
                        b == m_contactBuffer'[k].indexB
                        d == VecSub(m_positionBuffer'.data[a],
                                    m_positionBuffer'.data[b])
                    IN  (\/ a \in FormerA(A, B) /\ b \in FormerB(A, B)
                         \/ b \in FormerA(A, B) /\ a \in FormerB(A, B))
                        => \E p \in DOMAIN m_pairBuffer' :
                              /\ {m_pairBuffer'[p].indexA, m_pairBuffer'[p].indexB}
                                     = {a, b}
                              /\ m_pairBuffer'[p].strength =
                                     Min2(groups[A].m_strength, groups[B].m_strength)
                              /\ m_pairBuffer'[p].distanceSq = b2Dot(d, d)
      ]_vars

\* C18: every pair emitted by CreateParticleGroup is internal to the new
\* group: both of its endpoints lie in the new group's range
\* [firstIndex, lastIndex), even when the new particles are in contact with
\* particles that existed before the call.
C18_CreatedPairsAreInternal ==
    [][ (Called("CreateParticleGroup") /\ ~locked)
        => \A p \in (Len(m_pairBuffer) + 1) .. Len(m_pairBuffer') :
              /\ ContainsParticle(groups'[ret'], m_pairBuffer'[p].indexA)
              /\ ContainsParticle(groups'[ret'], m_pairBuffer'[p].indexB)
      ]_vars

NoDuplicatePairs(pairs) ==
    \A p, q \in DOMAIN pairs :
        {pairs[p].indexA, pairs[p].indexB} = {pairs[q].indexA, pairs[q].indexB}
        => p = q

\* C19: when groups A and B are disjoint at call time, JoinParticleGroups(A, B)
\* produces no duplicate pairs: after the call the pair array holds no two
\* entries with the same unordered endpoints {indexA, indexB}, given it held
\* none before.
C19_JoinMakesNoDuplicatePairs ==
    [][ \A AB \in JoinArguments :
          (Joined(AB[1], AB[2]) /\ NoDuplicatePairs(m_pairBuffer))
          => NoDuplicatePairs(m_pairBuffer')
      ]_vars

\* the step is a call JoinParticleGroups(A, B), the world not being locked,
\* on distinct groups with particles in their ranges
JoinedNonEmpty(A, B) ==
    /\ Called("JoinParticleGroups") /\ ~locked
    /\ A # B /\ GroupSize(A) > 0 /\ GroupSize(B) > 0
    /\ JoinDefined(Sys, A, B)
    /\ Sys' \in JoinParticleGroupsUnlocked(Sys, A, B)

\* flags, position, velocity and group of particle i, before and after
ParticleRecord(i) ==
    << m_flagsBuffer.data[i], m_positionBuffer.data[i],
       m_velocityBuffer.data[i], m_groupBuffer[i] >>
ParticleRecordAfter(i) ==
    << m_flagsBuffer'.data[i], m_positionBuffer'.data[i],
       m_velocityBuffer'.data[i], m_groupBuffer'[i] >>

\* what JoinParticleGroups(A, B) does to the particles and to the list of
\* groups: the count is kept, B leaves the list, the range of A is A's
\* former particles followed by B's, these and no others have A as their
\* group, and the other particles keep their records and their order
JoinMovesParticles(A, B) ==
    LET f == groups'[A].m_firstIndex
        nA == GroupSize(A)
        nB == GroupSize(B)
        others == {i \in Indices(m_count) :
                      ~ContainsParticle(groups[A], i) /\ ~ContainsParticle(groups[B], i)}
        othersAfter == {i \in Indices(m_count') : ~ContainsParticle(groups'[A], i)}
        rank(S, i) == Cardinality({j \in S : j < i})
    IN  /\ m_count' = m_count
        /\ m_groupCount' = m_groupCount - 1
        /\ \A k \in DOMAIN m_groupList' : m_groupList'[k] # B
        /\ groups'[A].m_lastIndex - f = nA + nB
        /\ \A k \in 0 .. (nA - 1) :
               ParticleRecordAfter(f + k) = ParticleRecord(groups[A].m_firstIndex + k)
        /\ \A k \in 0 .. (nB - 1) :
               /\ m_flagsBuffer'.data[f + nA + k] =
                      m_flagsBuffer.data[groups[B].m_firstIndex + k]
               /\ m_positionBuffer'.data[f + nA + k] =
                      m_positionBuffer.data[groups[B].m_firstIndex + k]
               /\ m_velocityBuffer'.data[f + nA + k] =
                      m_velocityBuffer.data[groups[B].m_firstIndex + k]
        /\ \A i \in Indices(m_count') :
               (m_groupBuffer'[i] = A) <=> ContainsParticle(groups'[A], i)
        /\ Cardinality(others) = Cardinality(othersAfter)
        /\ \A i \in others : \A j \in othersAfter :
               rank(others, i) = rank(othersAfter, j)
               => ParticleRecordAfter(j) = ParticleRecord(i)

\* C20 (as stated): after JoinParticleGroups(A, B) on distinct non-empty
\* groups, in either index order: the particle count is unchanged, the group
\* count is one less, B is no longer in the group list, A's range is
\* contiguous with length |A| + |B| and consists of A's former particles
\* followed by B's, group[i] = A for exactly those particles, A's flags are
\* the union of both groups' flags, and the records (flags, position,
\* velocity, group) of all particles outside A and B are preserved with their
\* relative order.
C20_JoinMergesWithUnionOfFlags ==
    [][ \A AB \in JoinArguments :
          JoinedNonEmpty(AB[1], AB[2])
          => /\ JoinMovesParticles(AB[1], AB[2])
             /\ groups'[AB[1]].m_groupFlags =
                    groups[AB[1]].m_groupFlags \cup groups[AB[2]].m_groupFlags
      ]_vars

\* C20 (as the code has it): the same, except that A's flags are the union of
\* both groups' flags together with needsUpdateDepth when the solid flag of A
\* changes, that is when B is solid and A was not.
C20_JoinMergesGroups ==
    [][ \A AB \in JoinArguments :
          JoinedNonEmpty(AB[1], AB[2])
          => /\ JoinMovesParticles(AB[1], AB[2])
             /\ groups'[AB[1]].m_groupFlags =
                    groups[AB[1]].m_groupFlags \cup groups[AB[2]].m_groupFlags
                    \cup (IF /\ b2_solidParticleGroup \in groups[AB[2]].m_groupFlags
                             /\ b2_solidParticleGroup \notin groups[AB[1]].m_groupFlags
                          THEN {b2_particleGroupNeedsUpdateDepth} ELSE {})
      ]_vars

\* C20 witness: a group of one particle, created after a solid group of two
\* whose depth a Solve has updated, has been joined with it as A: its
\* particle has moved from index 2 to index 0, before the two of B, and A
\* has become solid and due for a depth update.
C20_witness ==
    /\ lastCall = "JoinParticleGroups" /\ pc = "idle" /\ m_timestamp >= 1
    /\ m_count = 3 /\ m_groupList = <<2>>
    /\ groups[2].m_firstIndex = 0 /\ groups[2].m_lastIndex = 3
    /\ groups[2].m_groupFlags =
           {b2_solidParticleGroup, b2_particleGroupNeedsUpdateDepth}
    /\ m_flagsBuffer.data[0] = {b2_elasticParticle}
    /\ \A i \in 0 .. 2 : m_groupBuffer[i] = 2

\* the arguments of RotateBuffer that C21 speaks of
RotateArguments ==
    {t \in (0 .. MaxParticles) \X (0 .. MaxParticles) \X (0 .. MaxParticles) :
        t[1] < t[2] /\ t[2] < t[3] /\ t[3] <= m_count}

\* where the rotation puts the particle of index i: [mid, end) comes in front
\* of [start, mid) and the rest stays
MovedTo(start, mid, end, i) ==
    IF mid <= i /\ i < end THEN start + (i - mid)
    ELSE IF start <= i /\ i < mid THEN (start + (end - mid)) + (i - start)
    ELSE i

\* flags, position, velocity and group of particle i of system s
RecordOf(s, i) ==
    << s.m_flagsBuffer.data[i], s.m_positionBuffer.data[i],
       s.m_velocityBuffer.data[i], s.m_groupBuffer[i] >>

\* RotateBuffer(start, mid, end) moves the particle records by MovedTo, a
\* bijection of [0, count), and every proxy, contact, pair and triad names
\* after the call the place its particles have moved to
RotateKeepsRecords(s, start, mid, end) ==
    LET r == RotateBuffer(s, start, mid, end)
        M(i) == MovedTo(start, mid, end, i)
    IN  /\ r.m_count = s.m_count
        /\ {M(i) : i \in Indices(s.m_count)} = Indices(s.m_count)
        /\ \A i \in Indices(s.m_count) : RecordOf(r, M(i)) = RecordOf(s, i)
        /\ r.m_proxyBuffer =
               [k \in DOMAIN s.m_proxyBuffer |->
                   [s.m_proxyBuffer[k] EXCEPT !.index = M(@)]]
        /\ r.m_contactBuffer =
               [k \in DOMAIN s.m_contactBuffer |->
                   [s.m_contactBuffer[k] EXCEPT !.indexA = M(@), !.indexB = M(@)]]
        /\ r.m_pairBuffer =
               [k \in DOMAIN s.m_pairBuffer |->
                   [s.m_pairBuffer[k] EXCEPT !.indexA = M(@), !.indexB = M(@)]]
        /\ r.m_triadBuffer =
               [k \in DOMAIN s.m_triadBuffer |->
                   [s.m_triadBuffer[k] EXCEPT !.indexA = M(@), !.indexB = M(@),
                                              !.indexC = M(@)]]

\* the listed groups of s with particles in their range
NonEmptyGroups(s) ==
    {s.m_groupList[k] : k \in DOMAIN s.m_groupList}
        \cap {g \in DOMAIN s.groups :
                 s.groups[g].m_firstIndex < s.groups[g].m_lastIndex}

\* after RotateBuffer the range of group g covers the particles it covered
RotateKeepsGroup(s, g, start, mid, end) ==
    LET r == RotateBuffer(s, start, mid, end)
    IN  {MovedTo(start, mid, end, i) :
            i \in s.groups[g].m_firstIndex .. (s.groups[g].m_lastIndex - 1)}
        = r.groups[g].m_firstIndex .. (r.groups[g].m_lastIndex - 1)

\* the range of group g lies on one side of each of start, mid and end
GroupNotAcross(s, g, start, mid, end) ==
    \A b \in {start, mid, end} :
        ~(s.groups[g].m_firstIndex < b /\ b < s.groups[g].m_lastIndex)

RangeOf(g) == groups[g].m_firstIndex .. (groups[g].m_lastIndex - 1)
SurvivorsOf(g) == RangeOf(g) \ Zombies

\* the groups of the group list, before and after the step
Listed == {m_groupList[k] : k \in DOMAIN m_groupList}
ListedAfter == {m_groupList'[k] : k \in DOMAIN m_groupList'}

\* C22: after SolveZombie, a group all of whose particles were zombies is
\* removed from the group list (and the group count decremented) unless it
\* carries canBeEmpty, in which case it stays listed with the empty range
\* [0, 0); a group that lost some but not all of its particles keeps a range
\* covering exactly its survivors and, if solid, is flagged needsUpdateDepth.
C22_SolveZombieUpdatesGroups ==
    [][ (Called("Solve") /\ m_count > 0 /\ b2_zombieParticle \in m_allParticleFlags)
        => LET newIndex(i) == i - Cardinality({j \in Zombies : j < i})
               removed == {g \in Listed :
                              /\ SurvivorsOf(g) = {}
                              /\ b2_particleGroupCanBeEmpty \notin groups[g].m_groupFlags}
           IN  /\ ListedAfter = Listed \ removed
               /\ m_groupCount' = m_groupCount - Cardinality(removed)
               /\ Len(m_groupList') = m_groupCount'
               /\ \A g \in Listed \ removed :
                      IF SurvivorsOf(g) = {}
                      THEN groups'[g].m_firstIndex = 0 /\ groups'[g].m_lastIndex = 0
                      ELSE /\ {newIndex(i) : i \in SurvivorsOf(g)} =
                                  groups'[g].m_firstIndex .. (groups'[g].m_lastIndex - 1)
                           /\ (/\ SurvivorsOf(g) # RangeOf(g)
                               /\ b2_solidParticleGroup \in groups[g].m_groupFlags)
                              => b2_particleGroupNeedsUpdateDepth
                                     \in groups'[g].m_groupFlags
      ]_vars

\* C22 witness: a solid group of two, created by the first call and its
\* depth updated by the Solve of the second, has lost a particle in the
\* SolveZombie of this Solve: its range is [0, 1) and it is due for a depth
\* update again.
C22_witness ==
    /\ lastCall = "Solve" /\ pc = "substep" /\ m_timestamp >= 1 /\ calls = 4
    /\ m_count = 1 /\ m_groupList = <<1>>
    /\ groups[1].m_firstIndex = 0 /\ groups[1].m_lastIndex = 1
    /\ groups[1].m_groupFlags =
           {b2_solidParticleGroup, b2_particleGroupNeedsUpdateDepth}

\* the body contacts of particle i
BodyContactsOf(i) ==
    {k \in DOMAIN m_bodyContactBuffer : m_bodyContactBuffer[k].index = i}

\* C23: with strict contact check enabled, after UpdateBodyContacts each
\* particle has at most 3 body contacts, and these are taken from its
\* contacts of largest weight (nearest first).
C23_AtMostThreeBodyContacts ==
    (lastCall = "UpdateBodyContacts" /\ m_strictContactCheck)
    => \A i \in Indices(m_count) :
           /\ Cardinality(BodyContactsOf(i)) <= k_maxContactsPerPoint
           /\ \A k, j \in BodyContactsOf(i) :
                  k < j => m_bodyContactBuffer[k].weight >= m_bodyContactBuffer[j].weight

---------------------------------------------------------------------------
(* C24 *)

\* the lengths, in units of 1 / WeightOne, of the paths of at most `hops`
\* contacts inside group g that lead from particle i to a particle of g
\* whose weight is below 0.8; a contact of weight w is an edge of cost 1 - w
RECURSIVE PathLengths(_, _, _)
PathLengths(g, i, hops) ==
    (IF m_weightBuffer[i] < SurfaceWeight THEN {0} ELSE {})
    \cup
    (IF hops = 0 THEN {}
     ELSE UNION
            { { (WeightOne - m_contactBuffer[k].weight) + d :
                  d \in PathLengths(g,
                                    IF m_contactBuffer[k].indexA = i
                                    THEN m_contactBuffer[k].indexB
                                    ELSE m_contactBuffer[k].indexA,
                                    hops - 1) } :
              k \in { c \in DOMAIN m_contactBuffer :
                        /\ i \in {m_contactBuffer[c].indexA, m_contactBuffer[c].indexB}
                        /\ m_groupBuffer[m_contactBuffer[c].indexA] = g
                        /\ m_groupBuffer[m_contactBuffer[c].indexB] = g } })

\* diameter times the shortest-path distance of particle i of group g to the
\* surface of g, 0 when no surface particle is reachable
ShortestPathDepth(g, i) ==
    LET lengths == PathLengths(g, i, m_count)
    IN  IF lengths = {} THEN 0
        ELSE (SetMin(lengths) * LineDiameter) \div WeightOne

GroupsNeedingDepth ==
    {g \in 1 .. MaxGroups :
        /\ \E k \in DOMAIN m_groupList : m_groupList[k] = g
        /\ b2_particleGroupNeedsUpdateDepth \in groups[g].m_groupFlags}

\* C24: after ComputeDepth every particle of a group that needed a depth
\* update has the depth diameter * (shortest-path distance to the nearest
\* particle of the group with weight < 0.8), or 0 when none is reachable, and
\* needsUpdateDepth is cleared on every such group.
C24_DepthIsShortestPath ==
    [][ (pc = "weight" /\ pc' = "depth") =>
          \A g \in GroupsNeedingDepth :
              /\ b2_particleGroupNeedsUpdateDepth \notin groups'[g].m_groupFlags
              /\ \A i \in Indices(m_count) :
                     ContainsParticle(groups[g], i) =>
                         m_depthBuffer'[i] = ShortestPathDepth(g, i) ]_vars

---------------------------------------------------------------------------
(* C25 *)

\* C25: ComputeDepth and SolveZombie release every block they take from the
\* stack allocator, newest first, before they return: in every state between
\* the steps of the operations, and so after any Solve, the stack allocator
\* holds no block of the particle system and no block was freed out of order.
C25_ScratchReleasedInReverseOrder ==
    /\ m_stackAllocator.m_entries = <<>>
    /\ m_stackAllocator.lifo

\* C25 witness: Solve has returned after SolveZombie compacted the
\* two-particle solid group to one particle and ComputeDepth cleared the
\* needsUpdateDepth flag that SolveZombie had set on it.
C25_witness ==
    /\ lastCall = "Solve" /\ pc = "idle"
    /\ m_count = 1 /\ m_groupList = <<1>>
    /\ groups[1].m_firstIndex = 0 /\ groups[1].m_lastIndex = 1
    /\ groups[1].m_groupFlags = {b2_solidParticleGroup}
    /\ m_stackAllocator.m_entries = <<>>

---------------------------------------------------------------------------
(* C26 *)

\* the groups of the group list
ListedGroups == {m_groupList[k] : k \in DOMAIN m_groupList}

\* the indices of the range of group g
GroupRange(g) == groups[g].m_firstIndex .. (groups[g].m_lastIndex - 1)

\* C26: every group in the group list has
\* 0 <= m_firstIndex <= m_lastIndex <= m_count, and the ranges of distinct
\* groups are disjoint, also for empty canBeEmpty groups when two other
\* groups are joined.
C26_GroupRangesOrderedAndDisjoint ==
    /\ \A g \in ListedGroups :
           /\ 0 <= groups[g].m_firstIndex
           /\ groups[g].m_firstIndex <= groups[g].m_lastIndex
           /\ groups[g].m_lastIndex <= m_count
    /\ \A g, h \in ListedGroups :
           g # h => GroupRange(g) \cap GroupRange(h) = {}

---------------------------------------------------------------------------
(* C27 *)

\* C27: Solve never dereferences a null group: whenever SolveBarrier is
\* called, every barrier particle that is no wall particle has a group, also
\* a barrier particle created by CreateParticle outside any group.
C27_SolveBarrierReadsNoNullGroup ==
    (At("SolveBarrier") /\ RunsBarrier(Sys)) => SolveBarrierDefined(Sys)

---------------------------------------------------------------------------
(* C28 *)

\* the flags set on any particle, and on any listed group
FlagsOfParticles == UNION {m_flagsBuffer.data[i] : i \in Indices(m_count)}
FlagsOfGroups == UNION {groups[m_groupList[k]].m_groupFlags : k \in DOMAIN m_groupList}

\* C28: m_allParticleFlags contains every flag set on a particle and
\* m_allGroupFlags every flag set on a listed group, so no guard of Solve is
\* false while a particle or group carries its flag; and while
\* m_needsUpdateAllParticleFlags is false, m_allParticleFlags is exactly the
\* union of the particles' flags.
C28_FlagCachesCoverFlags ==
    /\ FlagsOfParticles \subseteq m_allParticleFlags
    /\ FlagsOfGroups \subseteq m_allGroupFlags
    /\ ~m_needsUpdateAllParticleFlags => m_allParticleFlags = FlagsOfParticles

\* C28 witness: SetParticleFlags has removed the viscous flag from the only
\* particle that carried it, so the cache holds more than the union and the
\* marker is set, while a solid group is listed.
C28_witness ==
    /\ lastCall = "SetParticleFlags"
    /\ m_needsUpdateAllParticleFlags
    /\ b2_viscousParticle \in m_allParticleFlags \ FlagsOfParticles
    /\ b2_solidParticleGroup \in FlagsOfGroups

---------------------------------------------------------------------------
(* C29 *)

\* m_proxyCount, the length of the proxy array
m_proxyCount == Len(m_proxyBuffer)

\* C29: the proxy array holds exactly one entry per particle:
\* m_proxyCount = m_count and the proxy indices are a permutation of
\* 0 .. m_count - 1, after any sequence of calls, failed calls of
\* CreateParticle included.
C29_OneProxyPerParticle ==
    /\ m_proxyCount = m_count
    /\ \A i \in Indices(m_count) :
           Cardinality({k \in DOMAIN m_proxyBuffer : m_proxyBuffer[k].index = i}) = 1

\* C29 witness: Solve has returned with two particles in one group, the
\* first from the one-particle elastic group and the second from the solid
\* group: the two groups were joined, and SolveZombie has removed a particle.
C29_witness ==
    /\ lastCall = "Solve" /\ pc = "idle"
    /\ m_count = 2 /\ m_proxyCount = 2 /\ m_groupCount = 1
    /\ m_groupBuffer[0] # NULL /\ m_groupBuffer[0] = m_groupBuffer[1]
    /\ m_flagsBuffer.data[0] = {b2_elasticParticle}
    /\ m_flagsBuffer.data[1] = {b2_springParticle, b2_elasticParticle}

---------------------------------------------------------------------------
(* C30 *)

\* the particles whose position lies strictly inside aabb
StrictlyInside(aabb) ==
    {i \in Indices(m_count) :
        LET p == m_positionBuffer.data[i]
        IN  /\ aabb.lowerBound[1] < p[1] /\ p[1] < aabb.upperBound[1]
            /\ aabb.lowerBound[2] < p[2] /\ p[2] < aabb.upperBound[2]}

\* the particles QueryAABB reports to a callback that never returns false
ReportedBy(aabb) ==
    {QueryAABB(Sys, aabb)[k] : k \in DOMAIN QueryAABB(Sys, aabb)}

\* C30: QueryAABB, called in any state between operations, reports every
\* particle whose current position lies strictly inside the AABB and no
\* particle outside it.
C30_QueryAABBReportsParticlesInside ==
    pc = "idle" => \A aabb \in Shapes : ReportedBy(aabb) = StrictlyInside(aabb)

====
